---- MODULE Spec2Model ----
(***************************************************************************)
(* gemini-cli-proxy: the stream adapter (geminiToOpenAIStream,             *)
(* processEvent), the response aggregator (buildNonStreamingResponse) and  *)
(* the part of the /v1/chat/completions handler that consumes the adapted  *)
(* stream, for one request (Spec); and the handler from the arrival of a   *)
(* request on, with the shared session, for two requests that may overlap  *)
(* (RouteSpec); the error handler plugin called with one error             *)
(* (ErrorSpec); the message converter openaiToGemini called with one      *)
(* list of messages (ConvertSpec); and the server as createServer          *)
(* assembles it, with the onRequest hook of the auth plugin, answering     *)
(* one request (ServerSpec).  LiveRouteSpec is RouteSpec with the          *)
(* fairness that the event loop gives to pending promises and streams.     *)
(*                                                                         *)
(* JavaScript values are represented as follows.  Strings are TLA+         *)
(* strings ("" is the only falsy one).  Objects are records whose domain   *)
(* is the set of keys that are present, so a missing key is a missing      *)
(* field.  The JavaScript null is the string "null" and the JavaScript     *)
(* undefined, where a variable holds it, is the record undefined.          *)
(* An SSEMessage's data is tagged: [json |-> chunk] or [string |-> text],  *)
(* the tag standing for the result of typeof; a message's content is       *)
(* tagged in the same way, [string |-> text] or [array |-> parts].         *)
(***************************************************************************)
EXTENDS Integers, Sequences, FiniteSets, TLC

\* Bounds of the model.
MaxEvents == 3
MaxClock == 1
MaxYields == 1
MaxMessages == 3

null == "null"
undefined == [undefined |-> TRUE]
EmptyObject == [k \in {} |-> k]

\* o.k ?? d
Get(o, k, d) == IF k \in DOMAIN o THEN o[k] ELSE d

\* o.k is present and truthy (k holds a string)
TruthyStr(o, k) == k \in DOMAIN o /\ o[k] # ""

Models == {"gemini-2.5-flash"}

\* The engine's events (ServerGeminiStreamEvent), one or more of each type
\* the adapter distinguishes, and one of a type it ignores.
ContentEvents ==
  { [type |-> "content", value |-> "a"],
    [type |-> "content", value |-> "b"],
    [type |-> "content", value |-> ""] }

ThoughtEvents ==
  { [type |-> "thought", value |-> [subject |-> "s", description |-> "t"]] }

ToolCallEvents ==
  { [type |-> "tool_call_request",
     value |-> [callId |-> "call_1", name |-> "f", args |-> [x |-> "1"]]],
    [type |-> "tool_call_request", value |-> [args |-> EmptyObject]] }

FinishedEvents ==
  { [type |-> "finished",
     value |-> [reason |-> "STOP",
                usageMetadata |-> [promptTokenCount |-> 1,
                                   candidatesTokenCount |-> 2,
                                   totalTokenCount |-> 3]]],
    [type |-> "finished",
     value |-> [reason |-> "MAX_TOKENS",
                usageMetadata |-> [promptTokenCount |-> 1]]],
    [type |-> "finished", value |-> [reason |-> "SAFETY"]],
    [type |-> "finished", value |-> EmptyObject] }

OtherEvents == { [type |-> "retry"] }

Events ==
  ContentEvents \cup ThoughtEvents \cup ToolCallEvents \cup FinishedEvents
    \cup OtherEvents

VARIABLES
  now,              \* the last value read from Date.now() / 1000, floored
  uuidCount,        \* number of uuid() calls made so far
  body,             \* the request body: model and stream
  includeThinking,  \* the route's INCLUDE_THINKING setting
  engine,           \* the engine stream: "open", "ended" or "thrown"
  consumed,         \* the events the engine stream has yielded so far
  pc,               \* position of the request in handler and generator
  id, created, isFirstChunk, toolCallIndex, usage,  \* generator locals
  emitted,          \* the SSEMessages geminiToOpenAIStream has yielded
  chunks,           \* handler, non-streaming: the collected chunks
  routeUsage,       \* handler, non-streaming: its own usage variable
  frames,           \* handler, streaming: what reply.raw.write was given
  ended,            \* handler, streaming: reply.raw.end() was called
  reply,            \* what the handler returned or threw
  requests,         \* the route's requests: each request's handler state
  sharedSession,    \* the route's sharedSession: a session id or null
  sessions,         \* SessionManager.sessions: session id -> session
  clientCalls,      \* the calls made on the sessions' clients, in order
  thrown,           \* error handler: the error it is called with
  handled,          \* error handler: the response it sent
  given,            \* converter: the messages openaiToGemini is given
  fetchResult,      \* converter: what fetch does, for each remote URL
  conversion,       \* converter: what openaiToGemini returned or threw
  env,              \* server: process.env, the variables that are set
  cliOptions,       \* server: what parseCliArgs returned
  app,              \* server: how the Fastify instance is assembled
  hooks,            \* server: the onRequest hooks added to the instance
  serverPc,         \* server: position of the instance and its request
  incoming,         \* server: the request the instance receives
  hookReply         \* server: what the onRequest hook sent, if anything

\* The state of one request's handler and generator, uuidCount apart.
streamVars == << now, body, includeThinking, engine, consumed, pc,
                 id, created, isFirstChunk, toolCallIndex, usage, emitted,
                 chunks, routeUsage, frames, ended, reply >>

\* The state of the route with its requests, uuidCount apart.
routeVars == << requests, sharedSession, sessions, clientCalls >>

\* The state of the server's assembly and of the request it receives.
serverVars == << env, cliOptions, app, hooks, serverPc, incoming, hookReply >>

\* The state of the error handler and of the message converter, taken
\* alone, and that of the server.
libVars == << thrown, handled, given, fetchResult, conversion, serverVars >>

vars == << uuidCount, streamVars, routeVars, libVars >>

\* uuid(): every call returns a value no earlier call returned.
uuid(n) == ToString(n)

\* JSON.stringify of an arguments object: at most one key, string-valued.
JSONstringify(o) ==
  IF DOMAIN o = {} THEN "{}"
  ELSE LET k == CHOOSE key \in DOMAIN o : TRUE
       IN "{\"" \o k \o "\":\"" \o o[k] \o "\"}"

\* JSON.parse of the texts that occur: [value |-> v] when the text is JSON,
\* [SyntaxError |-> TRUE] when JSON.parse throws.
JSONparse(text) ==
  CASE text = "{}" -> [value |-> EmptyObject]
    [] text = "{\"x\":\"1\"}" -> [value |-> [x |-> "1"]]
    [] text = "{\"error\":{\"message\":\"Invalid model\"}}" ->
         [value |-> [error |-> [message |-> "Invalid model"]]]
    [] text = "{\"message\":\"denied\"}" ->
         [value |-> [message |-> "denied"]]
    [] OTHER -> [SyntaxError |-> TRUE]

\* Mutant of RoleDelta: every chunk carries the role.
RoleDeltaAlways(first) == [role |-> "assistant"]

\* processEvent, delta.role (the first chunk carries the role).
RoleDelta(first) ==
  IF first THEN [role |-> "assistant"] ELSE EmptyObject

\* processEvent, delta.content of a content event with a truthy value.
ContentDelta(event, delta) ==
  IF event.type = "content" /\ event.value # ""
  THEN [content |-> event.value] @@ delta
  ELSE delta

\* Mutant of ThoughtDelta: includeThinking is not consulted.
ThoughtDeltaAlways(event, thinking, delta) ==
  IF event.type = "thought" /\ TruthyStr(event.value, "description")
  THEN [reasoning_content |-> event.value.description] @@ delta
  ELSE delta

\* processEvent, delta.reasoning_content of a thought event.
ThoughtDelta(event, thinking, delta) ==
  IF thinking /\ event.type = "thought"
     /\ TruthyStr(event.value, "description")
  THEN [reasoning_content |-> event.value.description] @@ delta
  ELSE delta

\* processEvent, the finish_reason it computes for an event.
FinishReasonOf(event) ==
  IF event.type = "finished"
  THEN LET geminiReason == Get(event.value, "reason", "undefined")
       IN IF geminiReason = "STOP" THEN "stop"
          ELSE IF geminiReason = "MAX_TOKENS" THEN "length"
          ELSE IF geminiReason \in {"SAFETY", "RECITATION", "OTHER"}
               THEN "content_filter"
          ELSE "stop"
  ELSE null

\* processEvent, delta.tool_calls of a tool_call_request event.  u is the
\* value of the uuid counter at the call.
ToolCallDelta(event, tcIndex, u, delta) ==
  IF event.type = "tool_call_request"
  THEN [tool_calls |->
          << [index |-> tcIndex,
              id |-> Get(event.value, "callId", "call_" \o uuid(u)),
              type |-> "function",
              function |->
                [name |-> Get(event.value, "name", ""),
                 arguments |->
                   JSONstringify(Get(event.value, "args", EmptyObject))]] >>]
       @@ delta
  ELSE delta

\* A ChatCompletionChunk with one choice.
Chunk(cid, ccreated, model, delta, finishReason) ==
  [id |-> cid,
   object |-> "chat.completion.chunk",
   created |-> ccreated,
   model |-> model,
   choices |-> << [index |-> 0,
                   delta |-> delta,
                   finish_reason |-> finishReason,
                   logprobs |-> null] >>]

\* processEvent: null (the record NoResult) or [chunk, isToolCall].
NoResult == [none |-> TRUE]

processEvent(event, pid, pcreated, model, first, thinking, tcIndex, u) ==
  LET delta ==
        ToolCallDelta(event, tcIndex, u,
          ThoughtDelta(event, thinking,
            ContentDelta(event, RoleDelta(first))))
  IN IF DOMAIN delta = {}
     THEN NoResult
     ELSE [chunk |-> Chunk(pid, pcreated, model,
                           [refusal |-> null] @@ delta,
                           FinishReasonOf(event)),
           isToolCall |-> event.type = "tool_call_request"]

\* processEvent calls uuid() once when the tool call has no callId.
UuidCallsOf(event) ==
  IF event.type = "tool_call_request" /\ "callId" \notin DOMAIN event.value
  THEN 1 ELSE 0

\* geminiToOpenAIStream: the usage it holds after an event.
UsageAfter(event, old) ==
  IF event.type = "finished" /\ "usageMetadata" \in DOMAIN event.value
  THEN LET m == event.value.usageMetadata
       IN [prompt_tokens |-> Get(m, "promptTokenCount", 0),
           completion_tokens |-> Get(m, "candidatesTokenCount", 0),
           total_tokens |-> Get(m, "totalTokenCount", 0)]
  ELSE old

\* Mutant of ToolCallIndexAfter: the index advances with every chunk.
ToolCallIndexAfterAnyChunk(result, tcIndex) == tcIndex + 1

\* geminiToOpenAIStream: toolCallIndex after a result was yielded.
ToolCallIndexAfter(result, tcIndex) ==
  IF result.isToolCall THEN tcIndex + 1 ELSE tcIndex

\* Mutant of FinalChunk: the final chunk has no finish_reason.
FinalChunkNullReason(fid, fcreated, model, fusage) ==
  [usage |-> fusage] @@ Chunk(fid, fcreated, model, EmptyObject, null)

\* Mutant of FinalChunk: the final chunk is given an id of its own.
FinalChunkOwnId(fid, fcreated, model, fusage) ==
  [usage |-> fusage]
    @@ Chunk("chatcmpl-" \o uuid(0), fcreated, model, EmptyObject, "stop")

\* geminiToOpenAIStream: the final chunk.
FinalChunk(fid, fcreated, model, fusage) ==
  [usage |-> fusage] @@ Chunk(fid, fcreated, model, EmptyObject, "stop")

DoneMessage == [data |-> [string |-> "[DONE]"]]
JsonMessage(chunk) == [data |-> [json |-> chunk]]
IsString(msg) == "string" \in DOMAIN msg.data

\* JSON.stringify(event.data) as the handler writes it: a key whose value is
\* undefined (of a chunk, only usage can be) is left out of the frame.
Serialize(chunk) ==
  [k \in {key \in DOMAIN chunk :
             ~(key = "usage" /\ chunk[key] = undefined)} |-> chunk[k]]

\* The frame reply.raw.write is given for one SSEMessage.
FrameOf(msg) ==
  IF IsString(msg) THEN [string |-> msg.data.string]
  ELSE [json |-> Serialize(msg.data.json)]

RECURSIVE FramesOf(_)
FramesOf(msgs) ==
  IF msgs = << >> THEN << >>
  ELSE << FrameOf(Head(msgs)) >> \o FramesOf(Tail(msgs))

\* Handler, non-streaming loop body: the chunks after one SSEMessage.
ChunksAfter(msg, cs) ==
  IF IsString(msg) THEN cs ELSE Append(cs, msg.data.json)

\* Mutant of RouteUsageAfter: the handler never takes a chunk's usage.
RouteUsageAfterNever(msg, old) == old

\* Handler, non-streaming loop body: its usage after one SSEMessage.
RouteUsageAfter(msg, old) ==
  IF ~IsString(msg) /\ "usage" \in DOMAIN msg.data.json
     /\ msg.data.json.usage # undefined
  THEN msg.data.json.usage
  ELSE old

\* The delta of a chunk (chunk.choices[0]?.delta).
DeltaOf(chunk) == chunk.choices[1].delta

\* Mutant of AppendContent: the content is replaced, not appended to.
AppendContentOverwrite(content, delta) ==
  IF TruthyStr(delta, "content") THEN delta.content ELSE content

\* buildNonStreamingResponse: content after one delta.
AppendContent(content, delta) ==
  IF TruthyStr(delta, "content") THEN content \o delta.content ELSE content

\* buildNonStreamingResponse: reasoningContent after one delta.
AppendReasoning(reasoningContent, delta) ==
  IF TruthyStr(delta, "reasoning_content")
  THEN reasoningContent \o delta.reasoning_content
  ELSE reasoningContent

\* Mutant of SlotOf: every tool-call delta goes to the first slot.
SlotOfFirst(tc) == 0

\* buildNonStreamingResponse: the slot of toolCalls a tool-call delta goes to.
SlotOf(tc) == tc.index

\* buildNonStreamingResponse: toolCalls (a sparse array: a function from the
\* indices that are set) after one tool-call delta.  u is the uuid counter.
MergeToolCall(toolCalls, tc, u) ==
  LET i == SlotOf(tc)
      slot == IF i \in DOMAIN toolCalls
              THEN toolCalls[i]
              ELSE [id |-> Get(tc, "id", "call_" \o uuid(u)),
                    type |-> "function",
                    function |-> [name |-> "", arguments |-> ""]]
      name == IF "function" \in DOMAIN tc /\ TruthyStr(tc.function, "name")
              THEN slot.function.name \o tc.function.name
              ELSE slot.function.name
      arguments ==
        IF "function" \in DOMAIN tc /\ TruthyStr(tc.function, "arguments")
        THEN slot.function.arguments \o tc.function.arguments
        ELSE slot.function.arguments
  IN IF "index" \in DOMAIN tc
     THEN (i :> [slot EXCEPT !.function =
                   [name |-> name, arguments |-> arguments]]) @@ toolCalls
     ELSE toolCalls

\* The uuid() calls MergeToolCall makes.
MergeUuidCalls(toolCalls, tc) ==
  IF "index" \in DOMAIN tc /\ tc.index \notin DOMAIN toolCalls
     /\ "id" \notin DOMAIN tc
  THEN 1 ELSE 0

\* buildNonStreamingResponse: the loop over delta.tool_calls; the result is
\* toolCalls and the uuid counter after it.
RECURSIVE MergeToolCalls(_, _, _)
MergeToolCalls(toolCalls, tcs, u) ==
  IF tcs = << >> THEN [toolCalls |-> toolCalls, u |-> u]
  ELSE MergeToolCalls(MergeToolCall(toolCalls, Head(tcs), u), Tail(tcs),
                      u + MergeUuidCalls(toolCalls, Head(tcs)))

\* buildNonStreamingResponse: the loop over the chunks.
RECURSIVE Aggregate(_, _)
Aggregate(cs, acc) ==
  IF cs = << >> THEN acc
  ELSE LET delta == DeltaOf(Head(cs))
           merged == MergeToolCalls(acc.toolCalls,
                                    Get(delta, "tool_calls", << >>), acc.u)
       IN Aggregate(Tail(cs),
            [content |-> AppendContent(acc.content, delta),
             reasoningContent |->
               AppendReasoning(acc.reasoningContent, delta),
             toolCalls |-> merged.toolCalls,
             u |-> merged.u])

\* toolCalls.filter(Boolean): the slots that are set, by increasing index.
RECURSIVE FilterBoolean(_)
FilterBoolean(toolCalls) ==
  IF DOMAIN toolCalls = {} THEN << >>
  ELSE LET m == CHOOSE i \in DOMAIN toolCalls :
                  \A j \in DOMAIN toolCalls : j <= i
       IN Append(FilterBoolean([i \in DOMAIN toolCalls \ {m} |->
                                  toolCalls[i]]),
                 toolCalls[m])

\* chunks.find((c) => c.choices[0]?.finish_reason)?. ... ?? 'stop'
RECURSIVE FindFinishReason(_)
FindFinishReason(cs) ==
  IF cs = << >> THEN "stop"
  ELSE IF Head(cs).choices[1].finish_reason # null
       THEN Head(cs).choices[1].finish_reason
       ELSE FindFinishReason(Tail(cs))

\* content || null
OrNull(str) == IF str = "" THEN null ELSE str

\* buildNonStreamingResponse.  A key whose value is undefined is left out.
buildNonStreamingResponse(cs, model, busage, u, clock) ==
  LET acc == Aggregate(cs, [content |-> "", reasoningContent |-> "",
                            toolCalls |-> EmptyObject, u |-> u])
      reasoning == IF acc.reasoningContent = "" THEN EmptyObject
                   ELSE [reasoning_content |-> acc.reasoningContent]
      calls == IF DOMAIN acc.toolCalls = {} THEN EmptyObject
               ELSE [tool_calls |-> FilterBoolean(acc.toolCalls)]
  IN [id |-> IF cs # << >> THEN cs[1].id ELSE "chatcmpl-" \o uuid(acc.u),
      object |-> "chat.completion",
      created |-> IF cs # << >> THEN cs[1].created ELSE clock,
      model |-> model,
      choices |->
        << [index |-> 0,
            message |-> [role |-> "assistant",
                         content |-> OrNull(acc.content),
                         refusal |-> null] @@ reasoning @@ calls,
            finish_reason |-> FindFinishReason(cs),
            logprobs |-> null] >>,
      usage |-> IF busage # undefined THEN busage
                ELSE [prompt_tokens |-> 0, completion_tokens |-> 0,
                      total_tokens |-> 0]]

\* Handler: chunks.some(content or tool_calls.length)
HasContent(cs) ==
  \E i \in 1..Len(cs) :
    \/ TruthyStr(DeltaOf(cs[i]), "content")
    \/ /\ "tool_calls" \in DOMAIN DeltaOf(cs[i])
       /\ Len(DeltaOf(cs[i]).tool_calls) > 0

\* Handler: the guard that throws instead of sending a response.
NoContentReceived(cs) == ~HasContent(cs) /\ Len(cs) <= 1

NoContentError ==
  "No content received from the model. The request may have been rejected."

\* The message of the error the engine stream throws.
EngineError == "engine failure"

\* Handler, streaming catch block: the error chunk.
ErrorChunk(u, clock, model, message) ==
  Chunk("chatcmpl-" \o uuid(u), clock, model,
        [content |-> "\n\n[Error: " \o message \o "]"], "stop")

\* Mutant of ErrorFrames: the sentinel is not written after the error chunk.
ErrorFramesNoDone(u, clock, model, message) ==
  << [json |-> Serialize(ErrorChunk(u, clock, model, message))] >>

\* Handler, streaming catch block: the two frames it writes.
ErrorFrames(u, clock, model, message) ==
  << [json |-> Serialize(ErrorChunk(u, clock, model, message))],
     [string |-> "[DONE]"] >>

\* Mutant of NonStreamingReply: a stream error is swallowed and the chunks
\* collected so far are aggregated.
NonStreamingReplyPartial(streamError, cs, model, busage, u, clock) ==
  IF NoContentReceived(cs)
  THEN [threw |-> NoContentError]
  ELSE [status |-> 200,
        body |-> buildNonStreamingResponse(cs, model, busage, u, clock)]

\* Handler, non-streaming, after its loop: what it throws or sends
\* (streamError is null when the stream did not throw).
NonStreamingReply(streamError, cs, model, busage, u, clock) ==
  IF streamError # null
  THEN [threw |-> streamError]
  ELSE IF NoContentReceived(cs)
       THEN [threw |-> NoContentError]
       ELSE [status |-> 200,
             body |-> buildNonStreamingResponse(cs, model, busage, u, clock)]

Pending == [pending |-> TRUE]

\* The requests of the route: two, which may overlap in any way, numbered
\* in the order in which they arrive.
Requests == {1, 2}

\* A request that has not arrived.
NotReceived ==
  [pc |-> "idle", body |-> EmptyObject, sessionId |-> null, session |-> null,
   called |-> {}, listening |-> FALSE, closed |-> FALSE, aborted |-> FALSE,
   writes |-> 0, sentinels |-> 0, collected |-> 0, yields |-> 0,
   id |-> null, isFirstChunk |-> TRUE,
   ended |-> FALSE, reply |-> Pending]

\* The route as registered: no session, no request.
RouteVarsInit ==
  /\ requests = [r \in Requests |-> NotReceived]
  /\ sharedSession = null
  /\ sessions = EmptyObject
  /\ clientCalls = << >>

\* The error handler and the converter before they are called.
LibVarsInit ==
  /\ thrown = EmptyObject
  /\ handled = Pending
  /\ given = << >>
  /\ fetchResult = EmptyObject
  /\ conversion = Pending

\* The server is not looked at: nothing has been configured or received.
ServerVarsInit ==
  /\ env = EmptyObject
  /\ cliOptions = [includeThinking |-> FALSE]
  /\ app = "createServer"
  /\ hooks = {}
  /\ serverPc = "idle"
  /\ incoming = EmptyObject
  /\ hookReply = Pending

\* main: process.env after the command line options have been applied.
mainEnv(options, environment) ==
  IF options.includeThinking
  THEN [INCLUDE_THINKING |-> [string |-> "true"]] @@ environment
  ELSE environment

\* chatCompletionsRoute: process.env['INCLUDE_THINKING'] !== 'false'
IncludeThinkingOf(environment) ==
  Get(environment, "INCLUDE_THINKING", undefined) # [string |-> "false"]

\* The value INCLUDE_THINKING is started with, when it is set ('true' is
\* what the command line option sets).
ThinkingValues == {"false"}

\* The environments the server is started in, INCLUDE_THINKING being unset
\* or set.
ThinkingEnvironments ==
  {EmptyObject}
    \cup { [INCLUDE_THINKING |-> [string |-> v]] : v \in ThinkingValues }

Init ==
  /\ RouteVarsInit
  /\ LibVarsInit
  /\ cliOptions \in [includeThinking : BOOLEAN]
  /\ \E environment \in ThinkingEnvironments :
       env = mainEnv(cliOptions, environment)
  /\ app = "createServer"
  /\ hooks = {}
  /\ serverPc = "idle"
  /\ incoming = EmptyObject
  /\ hookReply = Pending
  /\ now = 0
  /\ uuidCount = 0
  /\ body \in [model : Models, stream : BOOLEAN]
  /\ includeThinking = IncludeThinkingOf(env)
  /\ engine = "open"
  /\ consumed = << >>
  /\ pc = "accepted"
  /\ id = null
  /\ created = 0
  /\ isFirstChunk = TRUE
  /\ toolCallIndex = 0
  /\ usage = undefined
  /\ emitted = << >>
  /\ chunks = << >>
  /\ routeUsage = undefined
  /\ frames = << >>
  /\ ended = FALSE
  /\ reply = Pending

\* Math.floor(Date.now() / 1000) may return t: the clock never goes back.
ClockReads(t) == t \in now..MaxClock

\* Handler: promptId = uuid(), sendMessageStream, and in streaming mode
\* writeHead(200).
Invoke ==
  /\ pc = "accepted"
  /\ pc' = "invoked"
  /\ uuidCount' = uuidCount + 1
  /\ reply' = IF body.stream THEN [status |-> 200, sse |-> TRUE] ELSE reply
  /\ UNCHANGED << now, body, includeThinking, engine, consumed,
                  id, created, isFirstChunk, toolCallIndex, usage, emitted,
                  chunks, routeUsage, frames, ended >>
  /\ UNCHANGED << routeVars, libVars >>

\* geminiToOpenAIStream up to its loop: the handler's first next().
Enter ==
  /\ pc = "invoked"
  /\ pc' = "loop"
  /\ id' = "chatcmpl-" \o uuid(uuidCount)
  /\ uuidCount' = uuidCount + 1
  /\ \E t \in 0..MaxClock :
       /\ ClockReads(t)
       /\ now' = t
       /\ created' = t
  /\ isFirstChunk' = TRUE
  /\ toolCallIndex' = 0
  /\ usage' = undefined
  /\ UNCHANGED << body, includeThinking, engine, consumed, emitted,
                  chunks, routeUsage, frames, ended, reply >>
  /\ UNCHANGED << routeVars, libVars >>

\* The handler's loop body for the messages the generator yields.
RECURSIVE ChunksAfterAll(_, _)
ChunksAfterAll(msgs, cs) ==
  IF msgs = << >> THEN cs
  ELSE ChunksAfterAll(Tail(msgs), ChunksAfter(Head(msgs), cs))

RECURSIVE RouteUsageAfterAll(_, _)
RouteUsageAfterAll(msgs, old) ==
  IF msgs = << >> THEN old
  ELSE RouteUsageAfterAll(Tail(msgs), RouteUsageAfter(Head(msgs), old))

Deliver(msgs) ==
  /\ emitted' = emitted \o msgs
  /\ IF body.stream
     THEN /\ frames' = frames \o FramesOf(msgs)
          /\ UNCHANGED << chunks, routeUsage >>
     ELSE /\ chunks' = ChunksAfterAll(msgs, chunks)
          /\ routeUsage' = RouteUsageAfterAll(msgs, routeUsage)
          /\ UNCHANGED frames

\* The engine stream yields an event: one iteration of the loop of
\* geminiToOpenAIStream, and of the handler's loop when a chunk is yielded.
EngineYield(event) ==
  /\ pc = "loop"
  /\ engine = "open"
  /\ Len(consumed) < MaxEvents
  /\ consumed' = Append(consumed, event)
  /\ usage' = UsageAfter(event, usage)
  /\ uuidCount' = uuidCount + UuidCallsOf(event)
  /\ LET result == processEvent(event, id, created, body.model,
                                isFirstChunk, includeThinking,
                                toolCallIndex, uuidCount)
     IN IF result # NoResult
        THEN /\ Deliver(<< JsonMessage(result.chunk) >>)
             /\ isFirstChunk' = FALSE
             /\ toolCallIndex' = ToolCallIndexAfter(result, toolCallIndex)
        ELSE /\ Deliver(<< >>)
             /\ UNCHANGED << isFirstChunk, toolCallIndex >>
  /\ UNCHANGED << now, body, includeThinking, engine, pc, id, created,
                  ended, reply >>
  /\ UNCHANGED << routeVars, libVars >>

\* The engine stream completes: the generator yields the final chunk.
EngineEnd ==
  /\ pc = "loop"
  /\ engine = "open"
  /\ engine' = "ended"
  /\ pc' = "final"
  /\ Deliver(<< JsonMessage(FinalChunk(id, created, body.model, usage)) >>)
  /\ UNCHANGED << now, uuidCount, body, includeThinking, consumed,
                  id, created, isFirstChunk, toolCallIndex, usage,
                  ended, reply >>
  /\ UNCHANGED << routeVars, libVars >>

\* The generator yields the sentinel and returns, and the handler leaves
\* its loop: in streaming mode it ends the response, otherwise it throws
\* when no content was received or sends the aggregate response.  (The
\* clock is read only to aggregate an empty list of chunks, which the guard
\* excludes.)
Return ==
  /\ pc = "final"
  /\ pc' = "responded"
  /\ Deliver(<< DoneMessage >>)
  /\ IF body.stream
     THEN /\ ended' = TRUE
          /\ UNCHANGED reply
     ELSE /\ reply' = NonStreamingReply(null, chunks', body.model,
                                        routeUsage', uuidCount, now)
          /\ UNCHANGED ended
  /\ UNCHANGED << now, uuidCount, body, includeThinking, engine, consumed,
                  id, created, isFirstChunk, toolCallIndex, usage >>
  /\ UNCHANGED << routeVars, libVars >>

\* The engine stream throws: the generator ends with the error.  In
\* streaming mode the handler writes the error chunk and the sentinel and
\* ends the response; otherwise it throws the error.
EngineThrow ==
  /\ pc = "loop"
  /\ engine = "open"
  /\ engine' = "thrown"
  /\ pc' = "responded"
  /\ IF body.stream
     THEN /\ \E t \in 0..MaxClock :
               /\ ClockReads(t)
               /\ now' = t
               /\ frames' = frames \o ErrorFrames(uuidCount, t, body.model,
                                                  EngineError)
          /\ uuidCount' = uuidCount + 1
          /\ ended' = TRUE
          /\ UNCHANGED reply
     ELSE /\ reply' = NonStreamingReply(EngineError, chunks, body.model,
                                        routeUsage, uuidCount, now)
          /\ UNCHANGED << now, frames, uuidCount, ended >>
  /\ UNCHANGED << body, includeThinking, consumed,
                  id, created, isFirstChunk, toolCallIndex, usage, emitted,
                  chunks, routeUsage >>
  /\ UNCHANGED << routeVars, libVars >>

Next ==
  \/ Invoke
  \/ Enter
  \/ \E event \in Events : EngineYield(event)
  \/ EngineEnd
  \/ Return
  \/ EngineThrow

Spec == Init /\ [][Next]_vars

(***************************************************************************)
(* The route: the handler of POST /v1/chat/completions from the arrival of *)
(* a request on, for requests that overlap in time.  The handlers run on   *)
(* one thread, so a step is what a handler does between two of its         *)
(* suspension points (await); the engine and the client act in between.    *)
(* Here the chunks of a response are counted, not built.                   *)
(***************************************************************************)

\* A message's content is [string |-> text] or [array |-> parts], the tag
\* standing for what typeof and Array.isArray tell; a message without the
\* field has no content (undefined or null).
Hello == << [role |-> "user", content |-> [string |-> "Hello"]] >>

Conversation ==
  << [role |-> "system", content |-> [string |-> "s"]],
     [role |-> "user", content |-> [string |-> "q"]],
     [role |-> "assistant", content |-> [string |-> "a"]],
     [role |-> "user", content |-> [string |-> "r"]] >>

SystemOnly == << [role |-> "system", content |-> [string |-> "s"]] >>

\* A conversation whose assistant turn has a tool call with arguments that
\* are not JSON.
BadToolCall ==
  << [role |-> "user", content |-> [string |-> "q"]],
     [role |-> "assistant",
      tool_calls |-> << [id |-> "call_1", type |-> "function",
                         function |-> [name |-> "f",
                                       arguments |-> "{x"]] >>],
     [role |-> "user", content |-> [string |-> "r"]] >>

\* A conversation that ends with an assistant turn.
EndsWithAssistant ==
  << [role |-> "user", content |-> [string |-> "q"]],
     [role |-> "assistant", content |-> [string |-> "a"]] >>

\* A conversation that ends with a tool turn.
EndsWithTool ==
  << [role |-> "user", content |-> [string |-> "q"]],
     [role |-> "assistant",
      tool_calls |-> << [id |-> "call_1", type |-> "function",
                         function |-> [name |-> "f",
                                       arguments |-> "{}"]] >>],
     [role |-> "tool", tool_call_id |-> "call_1",
      content |-> [string |-> "20"]] >>

\* The request bodies: without messages, with an empty messages list,
\* without model, without both, with no message that yields a content, with
\* a tool call whose arguments are not JSON, and five that reach the
\* engine, one of them naming another model.
Bodies ==
  { [model |-> "gemini-2.5-flash"],
    [model |-> "gemini-2.5-flash", messages |-> << >>],
    [messages |-> Hello],
    EmptyObject,
    [model |-> "gemini-2.5-flash", messages |-> SystemOnly],
    [model |-> "gemini-2.5-flash", messages |-> BadToolCall],
    [model |-> "gemini-2.5-flash", messages |-> Hello],
    [model |-> "gemini-2.5-flash", messages |-> Hello, stream |-> TRUE],
    [model |-> "gemini-2.5-flash", messages |-> Conversation,
     stream |-> TRUE],
    [model |-> "gemini-2.5-pro", messages |-> EndsWithAssistant],
    [model |-> "gemini-2.5-flash", messages |-> EndsWithTool,
     stream |-> TRUE] }

\* reply.status(400).send of an invalid_request_error.
BadRequest(message, code) ==
  [status |-> 400,
   body |-> [error |-> [message |-> message,
                        type |-> "invalid_request_error",
                        code |-> code]]]

\* Mutant of Validate: an empty messages list is let through.
ValidateAbsentOnly(b) ==
  IF "messages" \notin DOMAIN b
  THEN BadRequest("messages is required and must not be empty",
                  "invalid_messages")
  ELSE IF ~TruthyStr(b, "model")
       THEN BadRequest("model is required", "invalid_model")
       ELSE Pending

\* Handler: the response its validation sends, Pending when it sends none.
Validate(b) ==
  IF "messages" \notin DOMAIN b \/ Len(b.messages) = 0
  THEN BadRequest("messages is required and must not be empty",
                  "invalid_messages")
  ELSE IF ~TruthyStr(b, "model")
       THEN BadRequest("model is required", "invalid_model")
       ELSE Pending

\* !content
Falsy(content) ==
  content = undefined \/ ("string" \in DOMAIN content /\ content.string = "")

\* The image URLs that occur: a base64 data URL, a data URL that is not
\* base64, and a remote URL.
DataUrl == "data:image/png;base64,iVBOR"
PlainDataUrl == "data:image/png,iVBOR"
RemoteUrl == "https://example.com/cat.PNG"

\* imageUrl.startsWith('data:')
StartsWithData(url) == url \in {DataUrl, PlainDataUrl}

NoMatch == [match |-> FALSE]

\* imageUrl.match(/^data:([^;]+);base64,(.+)$/)
DataUrlMatch(url) ==
  IF url = DataUrl THEN [mimeType |-> "image/png", data |-> "iVBOR"]
  ELSE NoMatch

inferMimeTypeFromUrl(url) ==
  IF url = RemoteUrl THEN "image/png" ELSE "image/jpeg"

\* What fetch(imageUrl) and response.arrayBuffer() can do: a response that
\* is ok, with or without a content-type header, one that is not ok, and
\* an error thrown.
FetchOutcomes ==
  { [ok |-> TRUE, contentType |-> "image/webp", data |-> "UklGR"],
    [ok |-> TRUE, data |-> "UklGR"],
    [ok |-> FALSE],
    [throws |-> TRUE] }

\* Mutant of FetchedPart: a failed fetch leaves an image part without data.
FetchedPartKeepsFailed(url, outcome) ==
  IF "throws" \in DOMAIN outcome \/ ~outcome.ok
  THEN << [inlineData |-> [mimeType |-> inferMimeTypeFromUrl(url),
                           data |-> ""]] >>
  ELSE << [inlineData |->
             [mimeType |-> IF TruthyStr(outcome, "contentType")
                           THEN outcome.contentType
                           ELSE inferMimeTypeFromUrl(url),
              data |-> outcome.data]] >>

\* convertContentToParts: the parts a remote image gives, none when the
\* fetch throws or the response is not ok.
FetchedPart(url, outcome) ==
  IF "throws" \in DOMAIN outcome \/ ~outcome.ok
  THEN << >>
  ELSE << [inlineData |->
             [mimeType |-> IF TruthyStr(outcome, "contentType")
                           THEN outcome.contentType
                           ELSE inferMimeTypeFromUrl(url),
              data |-> outcome.data]] >>

\* convertContentToParts: the parts one element of a content array gives.
ConvertPart(part, fetch) ==
  IF Get(part, "type", "") = "text" /\ TruthyStr(part, "text")
  THEN << [text |-> part.text] >>
  ELSE IF Get(part, "type", "") = "image_url"
          /\ "image_url" \in DOMAIN part
          /\ TruthyStr(part.image_url, "url")
       THEN LET imageUrl == part.image_url.url
            IN IF StartsWithData(imageUrl)
               THEN IF DataUrlMatch(imageUrl) # NoMatch
                    THEN << [inlineData |-> DataUrlMatch(imageUrl)] >>
                    ELSE << >>
               ELSE FetchedPart(imageUrl, fetch[imageUrl])
       ELSE << >>

RECURSIVE ConvertParts(_, _)
ConvertParts(array, fetch) ==
  IF array = << >> THEN << >>
  ELSE ConvertPart(Head(array), fetch) \o ConvertParts(Tail(array), fetch)

\* convertContentToParts; fetch gives, for a remote URL, what fetching it
\* does.
convertContentToParts(content, fetch) ==
  IF Falsy(content) THEN << >>
  ELSE IF "string" \in DOMAIN content
       THEN << [text |-> content.string] >>
       ELSE ConvertParts(content.array, fetch)

\* texts.join('\n')
RECURSIVE JoinLines(_)
JoinLines(texts) ==
  IF texts = << >> THEN ""
  ELSE IF Len(texts) = 1 THEN texts[1]
       ELSE texts[1] \o "\n" \o JoinLines(Tail(texts))

\* extractTextContent
extractTextContent(content) ==
  IF Falsy(content) THEN ""
  ELSE IF "string" \in DOMAIN content THEN content.string
       ELSE LET textParts ==
                  SelectSeq(content.array,
                            LAMBDA part : Get(part, "type", "") = "text"
                                          /\ "text" \in DOMAIN part)
            IN JoinLines([i \in 1..Len(textParts) |-> textParts[i].text])

\* Mutant of FunctionCallPart: arguments that are not JSON become {}.
FunctionCallPartDefaultArgs(toolCall) ==
  LET parsed == JSONparse(toolCall.function.arguments)
  IN [parts |-> << [functionCall |->
                      [name |-> toolCall.function.name,
                       args |-> IF "SyntaxError" \in DOMAIN parsed
                                THEN EmptyObject
                                ELSE parsed.value]] >>]

\* openaiToGemini: the part of one function tool call; JSON.parse throws
\* when the arguments are not JSON.
FunctionCallPart(toolCall) ==
  LET parsed == JSONparse(toolCall.function.arguments)
  IN IF "SyntaxError" \in DOMAIN parsed
     THEN [threw |-> "SyntaxError"]
     ELSE [parts |-> << [functionCall |->
                           [name |-> toolCall.function.name,
                            args |-> parsed.value]] >>]

\* openaiToGemini: the parts of the tool calls of an assistant message.
RECURSIVE FunctionCallParts(_)
FunctionCallParts(toolCalls) ==
  IF toolCalls = << >> THEN [parts |-> << >>]
  ELSE LET first == IF Head(toolCalls).type = "function"
                    THEN FunctionCallPart(Head(toolCalls))
                    ELSE [parts |-> << >>]
           rest == FunctionCallParts(Tail(toolCalls))
       IN IF "threw" \in DOMAIN first THEN first
          ELSE IF "threw" \in DOMAIN rest THEN rest
               ELSE [parts |-> first.parts \o rest.parts]

\* Mutant of SystemInstructionAfter: the first system message is kept.
SystemInstructionFirst(old, message) ==
  IF old # undefined THEN old
  ELSE [string |-> extractTextContent(Get(message, "content", undefined))]

\* openaiToGemini: systemInstruction after a system message (a string, here
\* [string |-> text]).
SystemInstructionAfter(old, message) ==
  [string |-> extractTextContent(Get(message, "content", undefined))]

\* The raw value of a content: the text of a string, else the value.
Raw(content) ==
  IF content # undefined /\ "string" \in DOMAIN content
  THEN content.string ELSE content

\* Mutant of ToolContent: a tool message keeps the role 'tool'.
ToolContentRoleTool(message) ==
  [role |-> "tool",
   parts |-> << [functionResponse |->
                   [name |-> message.tool_call_id,
                    response |-> [result |-> Raw(Get(message, "content",
                                                     undefined))]]] >>]

\* openaiToGemini: the content a tool message gives.
ToolContent(message) ==
  [role |-> "user",
   parts |-> << [functionResponse |->
                   [name |-> message.tool_call_id,
                    response |-> [result |-> Raw(Get(message, "content",
                                                     undefined))]]] >>]

\* openaiToGemini: one iteration of its loop; acc is what it has built, or
\* the error thrown.
ConvertMessage(message, acc, fetch) ==
  LET content == Get(message, "content", undefined)
  IN CASE "threw" \in DOMAIN acc -> acc
       [] message.role = "system" ->
            [acc EXCEPT !.systemInstruction =
               SystemInstructionAfter(@, message)]
       [] message.role = "user" ->
            LET parts == convertContentToParts(content, fetch)
            IN IF Len(parts) > 0
               THEN [acc EXCEPT !.contents =
                       Append(@, [role |-> "user", parts |-> parts])]
               ELSE acc
       [] message.role = "assistant" ->
            LET text == IF ~Falsy(content)
                        THEN << [text |-> extractTextContent(content)] >>
                        ELSE << >>
                calls == IF "tool_calls" \in DOMAIN message
                         THEN FunctionCallParts(message.tool_calls)
                         ELSE [parts |-> << >>]
            IN IF "threw" \in DOMAIN calls THEN calls
               ELSE IF Len(text \o calls.parts) > 0
                    THEN [acc EXCEPT !.contents =
                            Append(@, [role |-> "model",
                                       parts |-> text \o calls.parts])]
                    ELSE acc
       [] message.role = "tool" ->
            [acc EXCEPT !.contents = Append(@, ToolContent(message))]
       [] OTHER -> acc

RECURSIVE openaiToGeminiFrom(_, _, _)
openaiToGeminiFrom(messages, acc, fetch) ==
  IF messages = << >> THEN acc
  ELSE openaiToGeminiFrom(Tail(messages),
                          ConvertMessage(Head(messages), acc, fetch), fetch)

\* openaiToGemini: [systemInstruction, contents], or [threw] when it
\* rejects.
openaiToGemini(messages, fetch) ==
  openaiToGeminiFrom(messages,
                     [systemInstruction |-> undefined, contents |-> << >>],
                     fetch)

\* The message of the error getOrCreate throws when it fails.
SessionError == "session failure"

\* requests with the given fields of request r replaced.
Update(r, fields) == [requests EXCEPT ![r] = fields @@ @]

\* Mutant of historyContents: the last content stays in the history.
historyContentsAll(contents) == contents

\* Handler: historyContents, all contents except the last one.
historyContents(contents) == SubSeq(contents, 1, Len(contents) - 1)

\* Mutant of lastUserContent: without contents an empty user content is
\* taken.
lastUserContentOrEmpty(contents) ==
  IF Len(contents) = 0 THEN [role |-> "user", parts |-> << >>]
  ELSE contents[Len(contents)]

\* Handler: lastUserContent, contents[contents.length - 1].
lastUserContent(contents) ==
  IF Len(contents) = 0 THEN undefined ELSE contents[Len(contents)]

\* Mutant of SessionCalls: the prompt is submitted before the history is
\* written.
SessionCallsSendFirst(r, s, contents) ==
  << [request |-> r, session |-> s, op |-> "sendMessageStream",
      arg |-> contents[Len(contents)].parts],
     [request |-> r, session |-> s, op |-> "setHistory",
      arg |-> SubSeq(contents, 1, Len(contents) - 1)] >>

\* Handler: the calls it makes on the shared session's client once the
\* messages are converted, with no suspension point in between.
SessionCalls(r, s, contents) ==
  << [request |-> r, session |-> s, op |-> "setHistory",
      arg |-> historyContents(contents)],
     [request |-> r, session |-> s, op |-> "sendMessageStream",
      arg |-> lastUserContent(contents).parts] >>

\* Mutant of SignalAfterClose: the close listener does not abort.
SignalAfterCloseKept(req) == req.aborted

\* abortController.signal.aborted after the request's 'close' event: the
\* listener, when it is registered, aborts.
SignalAfterClose(req) == req.aborted \/ req.listening

\* The handler is invoked with body b: validation, and for a valid body
\* either the call of getOrCreate (the handler then waits for it) or, when
\* there is a shared session, the call of openaiToGemini (it waits for
\* that).  getOrCreate takes the session's id when it is called.
Receive(r, b) ==
  /\ requests[r].pc = "idle"
  /\ \A q \in 1..(r - 1) : requests[q].pc # "idle"
  /\ IF Validate(b) # Pending
     THEN /\ requests' = Update(r, [pc |-> "responded", body |-> b,
                                    reply |-> Validate(b)])
          /\ UNCHANGED uuidCount
     ELSE IF sharedSession = null
          THEN /\ requests' = Update(r, [pc |-> "creating", body |-> b,
                                         sessionId |-> uuid(uuidCount),
                                         called |-> {"getOrCreate"}])
               /\ uuidCount' = uuidCount + 1
          ELSE /\ requests' = Update(r, [pc |-> "converting", body |-> b,
                                         called |-> {"openaiToGemini"}])
               /\ UNCHANGED uuidCount
  /\ UNCHANGED << sharedSession, sessions, clientCalls, streamVars,
                  libVars >>

\* getOrCreate resolves: it has put the session in the manager's map; the
\* handler assigns sharedSession and calls openaiToGemini.
SessionCreated(r) ==
  /\ requests[r].pc = "creating"
  /\ LET sid == requests[r].sessionId
     IN /\ sessions' = (sid :> [id |-> sid,
                                model |-> requests[r].body.model,
                                history |-> << >>]) @@ sessions
        /\ sharedSession' = sid
  /\ requests' = Update(r, [pc |-> "converting",
                            called |-> requests[r].called
                                         \cup {"openaiToGemini"}])
  /\ UNCHANGED << uuidCount, clientCalls, streamVars, libVars >>

\* getOrCreate rejects: the handler rethrows.
SessionFailed(r) ==
  /\ requests[r].pc = "creating"
  /\ requests' = Update(r, [pc |-> "responded",
                            reply |-> [threw |-> SessionError]])
  /\ UNCHANGED << uuidCount, sharedSession, sessions, clientCalls,
                  streamVars, libVars >>

\* openaiToGemini resolves or rejects.  When it rejects the handler
\* rethrows; without contents the handler answers 400;
\* otherwise it writes the history of the shared session, takes a prompt
\* id, registers the close listener, calls sendMessageStream and, in
\* streaming mode, writes the headers; the loop over the adapter's
\* generator starts the generator, which takes its chunk id, and the handler
\* waits for the first chunk.
Converted(r) ==
  /\ requests[r].pc = "converting"
  /\ LET converted == openaiToGemini(requests[r].body.messages, fetchResult)
         contents == converted.contents
     IN IF "threw" \in DOMAIN converted
        THEN /\ requests' =
                  Update(r, [pc |-> "responded",
                             reply |-> [threw |-> converted.threw]])
             /\ UNCHANGED << uuidCount, sessions, clientCalls >>
        ELSE IF lastUserContent(contents) = undefined
             THEN /\ requests' =
                       Update(r, [pc |-> "responded",
                                  reply |-> BadRequest("No user message found",
                                                       "invalid_messages")])
                  /\ UNCHANGED << uuidCount, sessions, clientCalls >>
             ELSE /\ sessions' =
                       [sessions EXCEPT ![sharedSession].history =
                          historyContents(contents)]
                  /\ clientCalls' =
                       clientCalls \o SessionCalls(r, sharedSession, contents)
                  /\ uuidCount' = uuidCount + 2
                  /\ requests' =
                       Update(r, [pc |-> "streaming",
                                  session |-> sharedSession,
                                  listening |-> TRUE,
                                  id |-> "chatcmpl-" \o uuid(uuidCount + 1),
                                  isFirstChunk |-> TRUE,
                                  called |-> requests[r].called
                                               \cup {"setHistory",
                                                     "sendMessageStream"},
                                  reply |->
                                    IF Get(requests[r].body, "stream", FALSE)
                                    THEN [status |-> 200, sse |-> TRUE]
                                    ELSE Pending])
  /\ UNCHANGED << sharedSession, streamVars, libVars >>

\* The engine stream of request r yields an event that the adapter turns
\* into a chunk: the handler writes a frame or collects the chunk.  Neither
\* the adapter nor the handler reads the abort signal.
StreamYield(r) ==
  /\ requests[r].pc = "streaming"
  /\ requests[r].yields < MaxYields
  /\ requests' =
       IF Get(requests[r].body, "stream", FALSE)
       THEN Update(r, [yields |-> requests[r].yields + 1,
                       isFirstChunk |-> FALSE,
                       writes |-> requests[r].writes + 1])
       ELSE Update(r, [yields |-> requests[r].yields + 1,
                       isFirstChunk |-> FALSE,
                       collected |-> requests[r].collected + 1])
  /\ UNCHANGED << uuidCount, sharedSession, sessions, clientCalls,
                  streamVars, libVars >>

\* The engine stream of request r completes: the final chunk and the
\* sentinel are written and the response is ended, or the aggregate of
\* the collected chunks and the final chunk is sent.
StreamEnd(r) ==
  /\ requests[r].pc = "streaming"
  /\ requests' =
       IF Get(requests[r].body, "stream", FALSE)
       THEN Update(r, [pc |-> "responded",
                       writes |-> requests[r].writes + 2,
                       sentinels |-> requests[r].sentinels + 1,
                       ended |-> TRUE])
       ELSE Update(r, [pc |-> "responded",
                       collected |-> requests[r].collected + 1,
                       reply |->
                         IF requests[r].collected = 0
                         THEN [threw |-> NoContentError]
                         ELSE [status |-> 200,
                               chunks |-> requests[r].collected + 1]])
  /\ UNCHANGED << uuidCount, sharedSession, sessions, clientCalls,
                  streamVars, libVars >>

\* Mutant of StreamingCatch: the error chunk is written, the sentinel is
\* not and the response is not ended.
StreamingCatchUnended(req) ==
  [pc |-> "responded", writes |-> req.writes + 1]

\* Handler, streaming catch block and what follows it: the error chunk and
\* the sentinel are written, and the response is ended.
StreamingCatch(req) ==
  [pc |-> "responded", writes |-> req.writes + 2,
   sentinels |-> req.sentinels + 1, ended |-> TRUE]

\* The engine stream of request r throws: the error chunk and the sentinel
\* are written and the response is ended, or the handler rethrows.
StreamThrow(r) ==
  /\ requests[r].pc = "streaming"
  /\ IF Get(requests[r].body, "stream", FALSE)
     THEN /\ requests' = Update(r, StreamingCatch(requests[r]))
          /\ uuidCount' = uuidCount + 1
     ELSE /\ requests' = Update(r, [pc |-> "responded",
                                    reply |-> [threw |-> EngineError]])
          /\ UNCHANGED uuidCount
  /\ UNCHANGED << sharedSession, sessions, clientCalls, streamVars,
                  libVars >>

\* Mutant of ControllerOf: one controller, that of the first request, is
\* captured by every listener.
ControllerOfFirst(r) == 1

\* The request whose AbortController the 'close' listener of request r
\* aborts: the controller is a constant of the handler invocation, so it
\* is that of request r.
ControllerOf(r) == r

\* The client of request r closes its connection before the response is
\* complete: request.raw emits 'close', once, and the listener of the
\* request, when it is registered, aborts its controller.
ClientClose(r) ==
  /\ requests[r].pc \notin {"idle", "responded"}
  /\ ~requests[r].closed
  /\ LET c == ControllerOf(r)
     IN requests' =
          [Update(r, [closed |-> TRUE]) EXCEPT
             ![c] = [aborted |-> \/ requests[c].aborted
                                 \/ SignalAfterClose(requests[r])] @@ @]
  /\ UNCHANGED << uuidCount, sharedSession, sessions, clientCalls,
                  streamVars, libVars >>

\* One request's handler and generator, not started.
StreamVarsInit ==
  /\ now = 0
  /\ body = [model |-> "gemini-2.5-flash", stream |-> FALSE]
  /\ includeThinking = TRUE
  /\ engine = "open"
  /\ consumed = << >>
  /\ pc = "accepted"
  /\ id = null
  /\ created = 0
  /\ isFirstChunk = TRUE
  /\ toolCallIndex = 0
  /\ usage = undefined
  /\ emitted = << >>
  /\ chunks = << >>
  /\ routeUsage = undefined
  /\ frames = << >>
  /\ ended = FALSE
  /\ reply = Pending

RouteInit ==
  /\ RouteVarsInit
  /\ LibVarsInit
  /\ ServerVarsInit
  /\ StreamVarsInit
  /\ uuidCount = 0

RouteNext ==
  \/ \E r \in Requests, b \in Bodies : Receive(r, b)
  \/ \E r \in Requests : SessionCreated(r)
  \/ \E r \in Requests : SessionFailed(r)
  \/ \E r \in Requests : Converted(r)
  \/ \E r \in Requests : StreamYield(r)
  \/ \E r \in Requests : StreamEnd(r)
  \/ \E r \in Requests : StreamThrow(r)
  \/ \E r \in Requests : ClientClose(r)

RouteSpec == RouteInit /\ [][RouteNext]_vars

(***************************************************************************)
(* Properties of the stream adapter.                                       *)
(***************************************************************************)

\* The chunks among the emitted messages, in emission order.
IsJson(msg) == ~IsString(msg)
DataOf(msg) == msg.data.json
EmittedData ==
  LET json == SelectSeq(emitted, IsJson)
  IN [i \in 1..Len(json) |-> DataOf(json[i])]

CompletedNormally == engine = "ended" /\ pc = "responded"

IsTerminal(chunk) ==
  DOMAIN DeltaOf(chunk) = {} /\ chunk.choices[1].finish_reason # null

\* C1: once the engine stream has completed normally and the generator has
\* returned, the emitted items are: chunks with a non-empty
\* delta, then exactly one chunk with an empty delta and a non-null
\* finish_reason, then '[DONE]' as the last item, which occurs once; before
\* the engine stream completes, no terminal chunk and no '[DONE]' is emitted.
C1_TerminalThenDone ==
  LET n == Len(emitted)
  IN /\ CompletedNormally =>
          /\ n >= 2
          /\ emitted[n] = DoneMessage
          /\ IsJson(emitted[n - 1])
          /\ IsTerminal(DataOf(emitted[n - 1]))
          /\ \A i \in 1..(n - 2) :
               IsJson(emitted[i]) /\ DOMAIN DeltaOf(DataOf(emitted[i])) # {}
     /\ pc = "loop" =>
          \A i \in 1..n :
            IsJson(emitted[i]) /\ DOMAIN DeltaOf(DataOf(emitted[i])) # {}
     /\ pc = "final" =>
          \A i \in 1..n :
            IsJson(emitted[i]) /\ (IsTerminal(DataOf(emitted[i])) <=> i = n)

C1_Witness ==
  /\ pc = "responded"
  /\ engine = "ended"
  /\ Len(consumed) >= 2
  /\ Len(emitted) >= 4
  /\ emitted[Len(emitted)] = DoneMessage

\* C2: every chunk emitted in one run, the terminal chunk included, carries
\* the id and the created value the generator took at entry.
C2_SameIdAndCreated ==
  LET data == EmittedData
  IN \A i \in 1..Len(data) :
       /\ data[i].id = id
       /\ data[i].created = created
       /\ data[i].id = data[1].id
       /\ data[i].created = data[1].created

C2_Witness ==
  /\ CompletedNormally
  /\ Len(EmittedData) >= 3
  /\ IsTerminal(EmittedData[Len(EmittedData)])
  /\ created = MaxClock

\* C3: when the engine stream has yielded at least one event, a chunk has
\* been emitted for the first event, the first chunk carries role
\* 'assistant', and no later chunk (the terminal chunk included) carries a
\* role.
C3_RoleOnFirstChunkOnly ==
  Len(consumed) >= 1 =>
    LET data == EmittedData
    IN /\ Len(data) >= 1
       /\ ~isFirstChunk
       /\ "role" \in DOMAIN DeltaOf(data[1])
       /\ DeltaOf(data[1]).role = "assistant"
       /\ \A i \in 2..Len(data) : "role" \notin DOMAIN DeltaOf(data[i])

C3_Witness ==
  /\ CompletedNormally
  /\ Len(consumed) >= 2
  /\ consumed[1].type = "retry"
  /\ Len(EmittedData) >= 3
  /\ DeltaOf(EmittedData[1]).role = "assistant"

\* The number of chunks among the first n of data that carry tool_calls.
RECURSIVE ToolCallChunksUpTo(_, _)
ToolCallChunksUpTo(data, n) ==
  IF n = 0 THEN 0
  ELSE ToolCallChunksUpTo(data, n - 1)
         + (IF "tool_calls" \in DOMAIN DeltaOf(data[n]) THEN 1 ELSE 0)

\* C4: the k-th chunk that carries tool_calls (k = 0, 1, 2, ...) carries
\* index k, whatever events come in between; toolCallIndex is the number of
\* tool-call chunks emitted.
C4_ToolCallIndexContiguous ==
  LET data == EmittedData
  IN /\ \A i \in 1..Len(data) :
          "tool_calls" \in DOMAIN DeltaOf(data[i]) =>
            /\ Len(DeltaOf(data[i]).tool_calls) = 1
            /\ DeltaOf(data[i]).tool_calls[1].index
                 = ToolCallChunksUpTo(data, i - 1)
     /\ toolCallIndex = ToolCallChunksUpTo(data, Len(data))

C4_Witness ==
  /\ Len(consumed) = 3
  /\ consumed[1].type = "tool_call_request"
  /\ consumed[2].type # "tool_call_request"
  /\ consumed[3].type = "tool_call_request"
  /\ toolCallIndex = 2
  /\ Len(EmittedData) >= 3

\* The finished events the engine stream has yielded.
FinishedSeen == SelectSeq(consumed, LAMBDA e : e.type = "finished")

\* The finish_reason the terminal chunk is to carry for an engine reason.
ClaimedFinishReason(reason) ==
  CASE reason = "STOP" -> "stop"
    [] reason = "MAX_TOKENS" -> "length"
    [] reason \in {"SAFETY", "RECITATION", "OTHER"} -> "content_filter"
    [] OTHER -> "stop"

\* C5: when the engine stream yielded one finished event and completed, the
\* terminal chunk's finish_reason is the one the table gives for the reason
\* of that event (an absent reason gives 'stop').
C5_TerminalFinishReason ==
  (CompletedNormally /\ Len(FinishedSeen) = 1) =>
    LET data == EmittedData
    IN data[Len(data)].choices[1].finish_reason
         = ClaimedFinishReason(Get(FinishedSeen[1].value, "reason",
                                   "absent"))

\* C6: a finished event produces no chunk, so every chunk emitted before
\* the terminal chunk (every chunk with a non-empty delta) has finish_reason
\* null.
C6_FinishReasonNullBeforeTerminal ==
  LET data == EmittedData
  IN \A i \in 1..Len(data) :
       DOMAIN DeltaOf(data[i]) # {} => data[i].choices[1].finish_reason = null

\* The fields of a delta that carry something (refusal is always null).
Carried(delta) == DOMAIN delta \ {"refusal"}

\* C7: with includeThinking false, every step in which the engine yields a
\* thought event emits nothing when the event is not the first one and
\* emits one chunk carrying only role 'assistant' when it is the first; and
\* no chunk emitted by any step carries reasoning_content.
C7_ThoughtSuppressed ==
  [][ ~includeThinking =>
        /\ \A i \in 1..Len(emitted') :
             IsJson(emitted'[i]) =>
               "reasoning_content" \notin DOMAIN DeltaOf(DataOf(emitted'[i]))
        /\ (Len(consumed') = Len(consumed) + 1
            /\ consumed'[Len(consumed')].type = "thought") =>
              IF consumed = << >>
              THEN /\ Len(emitted') = Len(emitted) + 1
                   /\ IsJson(emitted'[Len(emitted')])
                   /\ Carried(DeltaOf(DataOf(emitted'[Len(emitted')])))
                        = {"role"}
                   /\ DeltaOf(DataOf(emitted'[Len(emitted')])).role
                        = "assistant"
                   /\ DeltaOf(DataOf(emitted'[Len(emitted')])).refusal = null
              ELSE emitted' = emitted
    ]_vars

C7_Witness ==
  /\ ~includeThinking
  /\ CompletedNormally
  /\ Len(consumed) = 3
  /\ consumed[1].type = "thought"
  /\ TruthyStr(consumed[1].value, "description")
  /\ consumed[2].type = "content"
  /\ consumed[3].type = "thought"
  /\ TruthyStr(consumed[3].value, "description")
  /\ Len(emitted) = 4

(***************************************************************************)
(* Properties of the aggregate response.                                   *)
(***************************************************************************)

Responded200 == pc = "responded" /\ ~body.stream /\ "body" \in DOMAIN reply

MessageOf(response) == response.choices[1].message

\* The concatenation, in chunk order, of the values of a string field of
\* the deltas of the chunks.
RECURSIVE ConcatField(_, _)
ConcatField(cs, field) ==
  IF cs = << >> THEN ""
  ELSE Get(DeltaOf(Head(cs)), field, "") \o ConcatField(Tail(cs), field)

\* C8: the aggregate's message.content is the concatenation of all
\* delta.content (null when it is empty) and its message.reasoning_content
\* is the concatenation of all delta.reasoning_content (the key is not set
\* when there is nothing to concatenate).
C8_AggregateConcatenates ==
  Responded200 =>
    LET message == MessageOf(reply.body)
        content == ConcatField(chunks, "content")
        reasoning == ConcatField(chunks, "reasoning_content")
    IN /\ message.content = (IF content = "" THEN null ELSE content)
       /\ ("reasoning_content" \in DOMAIN message) = (reasoning # "")
       /\ Get(message, "reasoning_content", "") = reasoning

C8_Witness ==
  /\ Responded200
  /\ Len(consumed) = 3
  /\ MessageOf(reply.body).content = "ba"
  /\ "reasoning_content" \in DOMAIN MessageOf(reply.body)
  /\ MessageOf(reply.body).reasoning_content = "t"

\* The tool-call events the engine stream has yielded.
ToolCallsSeen == SelectSeq(consumed, LAMBDA e : e.type = "tool_call_request")

\* The concatenation, in chunk order, of a field of function of the
\* tool-call deltas streamed at index i.
RECURSIVE ConcatAtIndex(_, _, _)
ConcatAtIndex(cs, i, field) ==
  IF cs = << >> THEN ""
  ELSE LET tcs == Get(DeltaOf(Head(cs)), "tool_calls", << >>)
           here == IF tcs # << >> /\ tcs[1].index = i
                   THEN tcs[1].function[field] ELSE ""
       IN here \o ConcatAtIndex(Tail(cs), i, field)

\* C9: the aggregate of a fully consumed adapted stream of an engine stream
\* with N tool-call events has exactly N tool calls; the k-th has the name
\* and the arguments streamed at index k - 1, which are those of the k-th
\* tool-call event.
C9_ToolCallsRoundTrip ==
  Responded200 =>
    LET calls == Get(MessageOf(reply.body), "tool_calls", << >>)
        seen == ToolCallsSeen
        streamed == EmittedData
        N == Len(seen)
    IN /\ Len(calls) = N
       /\ ("tool_calls" \in DOMAIN MessageOf(reply.body)) = (N > 0)
       /\ \A k \in 1..N :
            /\ calls[k].function.name
                 = ConcatAtIndex(streamed, k - 1, "name")
            /\ calls[k].function.arguments
                 = ConcatAtIndex(streamed, k - 1, "arguments")
            /\ calls[k].function.name = Get(seen[k].value, "name", "")
            /\ calls[k].function.arguments
                 = JSONstringify(Get(seen[k].value, "args",
                                     EmptyObject))
            /\ calls[k].type = "function"

C9_Witness ==
  /\ Responded200
  /\ Len(ToolCallsSeen) = 2
  /\ ToolCallsSeen[1] # ToolCallsSeen[2]
  /\ Len(MessageOf(reply.body).tool_calls) = 2
  /\ MessageOf(reply.body).tool_calls[2].function.name = "f"

\* C10: in non-streaming mode, when the engine stream has ended and no
\* chunk carried content or a tool call, the handler threw the 'no content
\* received' error and sent no 200 response.
C10_NoContentRaises ==
  (pc = "responded" /\ ~body.stream /\ engine = "ended"
   /\ ~HasContent(chunks)) =>
     reply = [threw |-> NoContentError]

ZeroUsage == [prompt_tokens |-> 0, completion_tokens |-> 0, total_tokens |-> 0]

\* The usage the engine reported: that of its last finished event that has
\* usageMetadata, each missing count read as 0; undefined when there is none.
RECURSIVE ReportedUsage(_)
ReportedUsage(events) ==
  IF events = << >> THEN undefined
  ELSE LET e == events[Len(events)]
       IN IF e.type = "finished" /\ "usageMetadata" \in DOMAIN e.value
          THEN LET m == e.value.usageMetadata
               IN [prompt_tokens |->
                     IF "promptTokenCount" \in DOMAIN m
                     THEN m.promptTokenCount ELSE 0,
                   completion_tokens |->
                     IF "candidatesTokenCount" \in DOMAIN m
                     THEN m.candidatesTokenCount ELSE 0,
                   total_tokens |->
                     IF "totalTokenCount" \in DOMAIN m
                     THEN m.totalTokenCount ELSE 0]
          ELSE ReportedUsage(SubSeq(events, 1, Len(events) - 1))

\* C11: the usage the engine reported in a finished event (missing counts
\* read as 0) is the usage of the terminal chunk, of the terminal chunk's
\* frame in streaming mode, and of the aggregate response; when the engine
\* never reported usage the terminal chunk has none and the aggregate usage
\* is 0, 0, 0.
C11_UsageCarried ==
  LET reported == ReportedUsage(consumed)
      n == Len(emitted)
  IN /\ CompletedNormally =>
          /\ DataOf(emitted[n - 1]).usage = reported
          /\ body.stream =>
               LET frame == frames[Len(frames) - 1].json
               IN IF reported = undefined
                  THEN "usage" \notin DOMAIN frame
                  ELSE "usage" \in DOMAIN frame /\ frame.usage = reported
     /\ Responded200 =>
          reply.body.usage
            = (IF reported = undefined THEN ZeroUsage ELSE reported)

C11_Witness ==
  /\ Responded200
  /\ Len(consumed) = 3
  /\ consumed[2].type = "finished"
  /\ consumed[3].type = "content"
  /\ reply.body.usage
       = [prompt_tokens |-> 1, completion_tokens |-> 0, total_tokens |-> 0]

\* C12: the finish_reason of the aggregate response equals the
\* finish_reason of the terminal chunk of the adapted stream it was built
\* from.
C12_AggregateFinishReason ==
  Responded200 =>
    reply.body.choices[1].finish_reason
      = chunks[Len(chunks)].choices[1].finish_reason

\* The error chunk of the streaming catch block: the only chunk that has
\* both content and a finish_reason.
IsErrorChunk(chunk) ==
  /\ "content" \in DOMAIN DeltaOf(chunk)
  /\ chunk.choices[1].finish_reason # null

\* C14: in streaming mode, when the engine stream has thrown (the headers
\* were written before), the frames written are those of the chunks
\* emitted before, none an error chunk or '[DONE]', then one error chunk
\* that quotes the error, then '[DONE]' as the last frame; the response is
\* ended, its status is the 200 of the headers and the handler threw
\* nothing.
C14_StreamingFailureInBand ==
  (pc = "responded" /\ engine = "thrown" /\ body.stream) =>
    LET n == Len(frames)
    IN /\ n >= 2
       /\ frames[n] = [string |-> "[DONE]"]
       /\ "json" \in DOMAIN frames[n - 1]
       /\ IsErrorChunk(frames[n - 1].json)
       /\ DeltaOf(frames[n - 1].json).content
            = "\n\n[Error: " \o EngineError \o "]"
       /\ SubSeq(frames, 1, n - 2) = FramesOf(emitted)
       /\ \A i \in 1..(n - 2) :
            "json" \in DOMAIN frames[i] /\ ~IsErrorChunk(frames[i].json)
       /\ ended
       /\ reply = [status |-> 200, sse |-> TRUE]

C14_Witness ==
  /\ pc = "responded"
  /\ engine = "thrown"
  /\ body.stream
  /\ Len(consumed) = 2
  /\ Len(frames) = 4
  /\ ended

\* C15: in non-streaming mode, when the engine stream has thrown, the
\* handler threw the engine's error and sent no response body, whatever
\* chunks it had collected.
C15_NonStreamingFailureThrown ==
  (pc = "responded" /\ engine = "thrown" /\ ~body.stream) =>
    /\ reply = [threw |-> EngineError]
    /\ "body" \notin DOMAIN reply
    /\ "status" \notin DOMAIN reply
    /\ frames = << >>

C15_Witness ==
  /\ pc = "responded"
  /\ engine = "thrown"
  /\ ~body.stream
  /\ Len(chunks) = 2
  /\ HasContent(chunks)
  /\ reply = [threw |-> EngineError]

(***************************************************************************)
(* Properties of the route.                                                *)
(***************************************************************************)

\* The request's messages list is absent or empty.
NoMessages(b) == "messages" \notin DOMAIN b \/ b.messages = << >>

\* The calls request r has made on a session's client.
ClientCallsOf(r) == SelectSeq(clientCalls, LAMBDA c : c.request = r)

\* C13: a request that has arrived without messages, or with an empty
\* messages list, has been answered 400 with code invalid_messages, and one
\* with messages but without model 400 with code invalid_model; such a
\* request has called neither getOrCreate nor openaiToGemini nor setHistory
\* nor sendMessageStream, and holds no session.
C13_ValidationFirst ==
  \A r \in Requests :
    LET req == requests[r]
    IN (req.pc # "idle"
        /\ (NoMessages(req.body) \/ "model" \notin DOMAIN req.body)) =>
         /\ req.pc = "responded"
         /\ "status" \in DOMAIN req.reply
         /\ req.reply.status = 400
         /\ req.reply.body.error.code
              = (IF NoMessages(req.body) THEN "invalid_messages"
                 ELSE "invalid_model")
         /\ req.called = {}
         /\ req.sessionId = null
         /\ req.session = null
         /\ ClientCallsOf(r) = << >>

C13_Witness ==
  /\ requests[1].pc = "responded"
  /\ requests[1].body = [messages |-> Hello]
  /\ requests[1].reply.body.error.code = "invalid_model"
  /\ requests[2].pc = "responded"
  /\ requests[2].body = [model |-> "gemini-2.5-flash", messages |-> << >>]
  /\ requests[2].reply.body.error.code = "invalid_messages"
  /\ sharedSession = null
  /\ uuidCount = 0

\* C16: when the client of a request closes the connection while the
\* request's engine invocation is in flight, the request's abort signal is
\* aborted from then on.
C16_CloseAborts ==
  [][\A r \in Requests :
       /\ (requests[r].pc = "streaming" /\ ~requests[r].closed
           /\ requests'[r].closed) => requests'[r].aborted
       /\ requests[r].aborted => requests'[r].aborted]_vars

C16_Witness ==
  /\ requests[1].pc = "streaming"
  /\ requests[1].closed
  /\ requests[1].aborted
  /\ requests[1].yields = 1

\* C17: once a request's abort signal is aborted, no further frame is
\* written to its response.
C17_NoWriteAfterAbort ==
  [][\A r \in Requests :
       requests[r].aborted => requests'[r].writes = requests[r].writes]_vars

\* C18: on a session's client, every setHistory call is directly followed
\* by the sendMessageStream call of the same request on the same session,
\* and every sendMessageStream call directly follows the setHistory call of
\* its request: no call of another request comes in between.
C18_HistoryThenSend ==
  \A i \in 1..Len(clientCalls) :
    /\ clientCalls[i].op = "setHistory" =>
         /\ i < Len(clientCalls)
         /\ clientCalls[i + 1].op = "sendMessageStream"
         /\ clientCalls[i + 1].request = clientCalls[i].request
         /\ clientCalls[i + 1].session = clientCalls[i].session
    /\ clientCalls[i].op = "sendMessageStream" =>
         /\ i > 1
         /\ clientCalls[i - 1].op = "setHistory"
         /\ clientCalls[i - 1].request = clientCalls[i].request
         /\ clientCalls[i - 1].session = clientCalls[i].session

C18_Witness ==
  /\ Len(clientCalls) = 4
  /\ clientCalls[1].request = 2
  /\ clientCalls[3].request = 1
  /\ clientCalls[1].session = clientCalls[3].session
  /\ requests[1].pc = "streaming"
  /\ requests[2].pc = "streaming"

\* The requests whose engine invocation is in flight on session s.
InFlight(s) ==
  { r \in Requests : requests[r].pc = "streaming" /\ requests[r].session = s }

\* C19: at most one engine invocation is in flight on a session.
C19_OneInFlight ==
  \A s \in DOMAIN sessions : Cardinality(InFlight(s)) <= 1

\* C20: getOrCreate has completed at most once, and the session manager
\* holds at most one session.
C20_OneSession == Cardinality(DOMAIN sessions) <= 1

\* The contents the conversion of request r's messages gives, none when
\* the conversion fails.
ContentsOf(r) ==
  LET converted == openaiToGemini(requests[r].body.messages, fetchResult)
  IN IF "threw" \in DOMAIN converted THEN << >> ELSE converted.contents

\* The last setHistory call made on session s (0 when there is none).
LastSetHistory(s) ==
  LET made == { i \in 1..Len(clientCalls) :
                  clientCalls[i].session = s
                  /\ clientCalls[i].op = "setHistory" }
  IN IF made = {} THEN 0 ELSE CHOOSE i \in made : \A j \in made : j <= i

\* C21: every setHistory call is given the request's converted contents
\* without the last element, and the sendMessageStream call that follows
\* the parts of the last element; a session's history is what the last
\* setHistory call on it was given, whatever it held before.
C21_HistoryOverwritten ==
  /\ \A i \in 1..Len(clientCalls) :
       LET c == clientCalls[i]
           contents == ContentsOf(c.request)
           n == Len(contents)
       IN /\ n >= 1
          /\ c.op = "setHistory" =>
               /\ Len(c.arg) = n - 1
               /\ \A k \in 1..(n - 1) : c.arg[k] = contents[k]
          /\ c.op = "sendMessageStream" => c.arg = contents[n].parts
  /\ \A s \in DOMAIN sessions :
       LastSetHistory(s) # 0 =>
         sessions[s].history = clientCalls[LastSetHistory(s)].arg

C21_Witness ==
  /\ Len(clientCalls) = 4
  /\ clientCalls[1].session = clientCalls[3].session
  /\ Len(clientCalls[1].arg) = 2
  /\ clientCalls[3].arg = << >>
  /\ sessions[clientCalls[1].session].history = << >>

\* C22: the session is acquired after the conversion: a request that has
\* called getOrCreate has called openaiToGemini before, and a request whose
\* messages convert to no contents has neither called getOrCreate nor been
\* given a session id.
C22_ConvertBeforeSession ==
  \A r \in Requests :
    LET req == requests[r]
    IN /\ "getOrCreate" \in req.called => "openaiToGemini" \in req.called
       /\ (req.pc # "idle" /\ Validate(req.body) = Pending
           /\ Len(ContentsOf(r)) = 0) =>
            /\ "getOrCreate" \notin req.called
            /\ req.sessionId = null

(***************************************************************************)
(* The error handler plugin: mapStatusToErrorType, extractGaxiosError,     *)
(* createOpenAIError and the handler set with setErrorHandler, called with *)
(* one error object.  A status whose typeof is 'number' is                 *)
(* [number |-> n]; response.data is [object |-> o] or [string |-> text].   *)
(***************************************************************************)

Statuses == {200, 400, 401, 403, 404, 418, 429, 499, 500, 503}

\* The validation errors the framework raises: status code 400 and a
\* message, with the framework's code, another code or none.
ValidationErrors ==
  { [validation |-> TRUE, statusCode |-> 400,
     message |-> "body must have required property 'name'"] @@ c :
      c \in { [code |-> "FST_ERR_VALIDATION"], [code |-> "ERR_CUSTOM"],
              EmptyObject } }
    \cup { [code |-> "FST_ERR_VALIDATION",
            message |-> "body must have required property 'name'"] }

ResponseData ==
  { [object |-> [error |-> [message |-> "Invalid request body"]]],
    [object |-> [error |-> EmptyObject]],
    [object |-> EmptyObject],
    [string |-> "{\"error\":{\"message\":\"Invalid model\"}}"],
    [string |-> "{\"message\":\"denied\"}"],
    [string |-> "{}"],
    [string |-> "upstream unavailable"],
    [string |-> ""] }

Responses ==
  { a @@ b @@ c :
      a \in { EmptyObject, [status |-> [number |-> 503]] },
      b \in { EmptyObject, [statusText |-> "Service Unavailable"] },
      c \in { EmptyObject } \cup { [data |-> d] : d \in ResponseData } }

\* The other errors: with or without a code, a status code, a status (a
\* number or not), a message and a response.
OtherErrors ==
  { a @@ b @@ c @@ d @@ e :
      a \in { EmptyObject, [code |-> "ERR_OTHER"] },
      b \in { EmptyObject, [statusCode |-> 404], [statusCode |-> 418] },
      c \in { EmptyObject, [status |-> [string |-> "429"]] }
              \cup { [status |-> [number |-> n]] : n \in Statuses },
      d \in { EmptyObject, [message |-> ""], [message |-> "boom"] },
      e \in { EmptyObject } \cup { [response |-> r] : r \in Responses } }

Errors == ValidationErrors \cup OtherErrors

\* Mutant of mapStatusToErrorType: 500 itself is not a server error.
mapStatusToErrorTypeAbove500(status) ==
  CASE status = 400 -> [type |-> "invalid_request_error", code |-> "bad_request"]
    [] status = 401 -> [type |-> "authentication_error", code |-> "invalid_api_key"]
    [] status = 403 -> [type |-> "permission_error", code |-> "insufficient_permissions"]
    [] status = 404 -> [type |-> "invalid_request_error", code |-> "model_not_found"]
    [] status = 429 -> [type |-> "rate_limit_error", code |-> "rate_limit_exceeded"]
    [] status > 500 -> [type |-> "api_error", code |-> "server_error"]
    [] OTHER -> [type |-> "api_error", code |-> "internal_error"]

mapStatusToErrorType(status) ==
  CASE status = 400 -> [type |-> "invalid_request_error", code |-> "bad_request"]
    [] status = 401 -> [type |-> "authentication_error", code |-> "invalid_api_key"]
    [] status = 403 -> [type |-> "permission_error", code |-> "insufficient_permissions"]
    [] status = 404 -> [type |-> "invalid_request_error", code |-> "model_not_found"]
    [] status = 429 -> [type |-> "rate_limit_error", code |-> "rate_limit_exceeded"]
    [] status >= 500 -> [type |-> "api_error", code |-> "server_error"]
    [] OTHER -> [type |-> "api_error", code |-> "internal_error"]

IsNumber(v) == "number" \in DOMAIN v

\* extractGaxiosError: the status, undefined when none is a number.
GaxiosStatus(err) ==
  LET response == Get(err, "response", EmptyObject)
  IN IF "status" \in DOMAIN err /\ IsNumber(err.status)
     THEN err.status
     ELSE IF "status" \in DOMAIN response /\ IsNumber(response.status)
          THEN response.status
          ELSE undefined

\* o.error?.message, [string |-> m] or undefined.
ErrorMessageIn(o) ==
  IF "error" \in DOMAIN o /\ "message" \in DOMAIN o.error
  THEN [string |-> o.error.message]
  ELSE undefined

\* Mutant of DataMessage: response.data that is a string is not read.
DataMessageObjectOnly(err) ==
  LET response == Get(err, "response", EmptyObject)
  IN IF "data" \in DOMAIN response /\ "object" \in DOMAIN response.data
     THEN ErrorMessageIn(response.data.object)
     ELSE undefined

\* extractGaxiosError: the message found in response.data, [string |-> m]
\* or undefined.
DataMessage(err) ==
  LET response == Get(err, "response", EmptyObject)
  IN IF "data" \notin DOMAIN response THEN undefined
     ELSE LET data == response.data
          IN IF "string" \in DOMAIN data
             THEN IF data.string = "" THEN undefined
                  ELSE LET parsed == JSONparse(data.string)
                       IN IF "SyntaxError" \in DOMAIN parsed
                          THEN [string |-> data.string]
                          ELSE IF ErrorMessageIn(parsed.value) # undefined
                               THEN ErrorMessageIn(parsed.value)
                               ELSE IF "message" \in DOMAIN parsed.value
                                    THEN [string |-> parsed.value.message]
                                    ELSE undefined
             ELSE ErrorMessageIn(data.object)

\* What extractGaxiosError returns for an error that is not a Gaxios error.
NotGaxios == [gaxios |-> FALSE]

extractGaxiosError(err) ==
  LET status == GaxiosStatus(err)
      response == Get(err, "response", EmptyObject)
      message == DataMessage(err)
  IN IF status = undefined THEN NotGaxios
     ELSE [status |-> status.number,
           message |->
             IF message # undefined /\ message.string # ""
             THEN message.string
             ELSE IF "message" \in DOMAIN err THEN err.message
                  ELSE IF "statusText" \in DOMAIN response
                       THEN response.statusText
                       ELSE "HTTP " \o ToString(status.number) \o " error"]

createOpenAIError(status, message) ==
  [error |-> [message |-> message] @@ mapStatusToErrorType(status)]

\* Mutant of errorHandler: an error without statusCode is answered 400.
errorHandlerDefault400(err) ==
  IF Get(err, "code", "") = "FST_ERR_VALIDATION"
  THEN LET status == Get(err, "statusCode", 400)
       IN [status |-> status, body |-> createOpenAIError(status, err.message)]
  ELSE LET gaxiosError == extractGaxiosError(err)
       IN IF gaxiosError # NotGaxios
          THEN [status |-> gaxiosError.status,
                body |-> createOpenAIError(gaxiosError.status,
                                           gaxiosError.message)]
          ELSE LET statusCode == Get(err, "statusCode", 400)
                   message == IF TruthyStr(err, "message") THEN err.message
                              ELSE "Internal server error"
               IN [status |-> statusCode,
                   body |-> createOpenAIError(statusCode, message)]

\* The handler set with setErrorHandler: the response it sends.
errorHandler(err) ==
  IF Get(err, "code", "") = "FST_ERR_VALIDATION"
  THEN LET status == Get(err, "statusCode", 400)
       IN [status |-> status, body |-> createOpenAIError(status, err.message)]
  ELSE LET gaxiosError == extractGaxiosError(err)
       IN IF gaxiosError # NotGaxios
          THEN [status |-> gaxiosError.status,
                body |-> createOpenAIError(gaxiosError.status,
                                           gaxiosError.message)]
          ELSE LET statusCode == Get(err, "statusCode", 500)
                   message == IF TruthyStr(err, "message") THEN err.message
                              ELSE "Internal server error"
               IN [status |-> statusCode,
                   body |-> createOpenAIError(statusCode, message)]

ErrorInit ==
  /\ RouteVarsInit
  /\ StreamVarsInit
  /\ ServerVarsInit
  /\ uuidCount = 0
  /\ thrown \in Errors
  /\ handled = Pending
  /\ given = << >>
  /\ fetchResult = EmptyObject
  /\ conversion = Pending

\* The framework calls the handler with the error.
HandleError ==
  /\ handled = Pending
  /\ handled' = errorHandler(thrown)
  /\ UNCHANGED << uuidCount, streamVars, routeVars, thrown, given,
                  fetchResult, conversion, serverVars >>

ErrorNext == HandleError

ErrorSpec == ErrorInit /\ [][ErrorNext]_vars

(***************************************************************************)
(* Properties of the error handler.                                        *)
(***************************************************************************)

\* C23: mapStatusToErrorType gives a type and a code for every status, and
\* the response the handler sent with status s carries: for 400
\* invalid_request_error/bad_request, for 401
\* authentication_error/invalid_api_key, for 403
\* permission_error/insufficient_permissions, for 404
\* invalid_request_error/model_not_found, for 429
\* rate_limit_error/rate_limit_exceeded, for 500 and more
\* api_error/server_error, for any other status api_error/internal_error.
C23_StatusTable ==
  /\ \A s \in Statuses \cup {-1, 0, 1000} :
       DOMAIN mapStatusToErrorType(s) = {"type", "code"}
  /\ handled # Pending =>
       LET s == handled.status
           e == handled.body.error
           Is(type, code) == e.type = type /\ e.code = code
       IN /\ s = 400 => Is("invalid_request_error", "bad_request")
          /\ s = 401 => Is("authentication_error", "invalid_api_key")
          /\ s = 403 => Is("permission_error", "insufficient_permissions")
          /\ s = 404 => Is("invalid_request_error", "model_not_found")
          /\ s = 429 => Is("rate_limit_error", "rate_limit_exceeded")
          /\ s >= 500 => Is("api_error", "server_error")
          /\ (s < 500 /\ s \notin {400, 401, 403, 404, 429}) =>
               Is("api_error", "internal_error")

C23_Witness ==
  /\ handled # Pending
  /\ handled.status = 418
  /\ handled.body.error.code = "internal_error"
  /\ "status" \in DOMAIN thrown

\* The status the claim names: the direct status when it is a number, else
\* response.status when it is a number, else 0 for none.
ClaimedStatus(err) ==
  IF "status" \in DOMAIN err /\ "number" \in DOMAIN err.status
  THEN err.status.number
  ELSE IF "response" \in DOMAIN err /\ "status" \in DOMAIN err.response
          /\ "number" \in DOMAIN err.response.status
       THEN err.response.status.number
       ELSE 0

\* response.data.error.message, of data that is an object or a JSON string,
\* "" when there is none.
ClaimedDataErrorMessage(err) ==
  IF "response" \in DOMAIN err /\ "data" \in DOMAIN err.response
  THEN LET data == err.response.data
           o == IF "object" \in DOMAIN data THEN data.object
                ELSE IF "value" \in DOMAIN JSONparse(data.string)
                     THEN JSONparse(data.string).value
                     ELSE EmptyObject
       IN IF "error" \in DOMAIN o /\ "message" \in DOMAIN o.error
          THEN o.error.message ELSE ""
  ELSE ""

\* The message after response.data: the top-level message, else the status
\* text, else 'HTTP <status> error'.
ClaimedFallback(err) ==
  IF "message" \in DOMAIN err THEN err.message
  ELSE IF "response" \in DOMAIN err /\ "statusText" \in DOMAIN err.response
       THEN err.response.statusText
       ELSE "HTTP " \o ToString(ClaimedStatus(err)) \o " error"

\* response.data is a non-empty string; its text.
DataText(err) ==
  IF "response" \in DOMAIN err /\ "data" \in DOMAIN err.response
     /\ "string" \in DOMAIN err.response.data
  THEN err.response.data.string
  ELSE ""

IsValidationError(err) ==
  "validation" \in DOMAIN err \/ Get(err, "code", "") = "FST_ERR_VALIDATION"

\* C25: the response the handler sent has a body {error: {message, type,
\* code}} with the type and the code of the table for its status; for a
\* validation error it is 400 invalid_request_error/bad_request with the
\* error's message, whatever the error's code; for an error with no status
\* code, no numeric status and no numeric response.status it is 500
\* api_error/server_error with the error's message ('Internal server
\* error' when the error has no message text).
C25_HandlerResponse ==
  handled # Pending =>
    LET e == handled.body.error
    IN /\ DOMAIN handled.body = {"error"}
       /\ DOMAIN e = {"message", "type", "code"}
       /\ [type |-> e.type, code |-> e.code]
            = mapStatusToErrorType(handled.status)
       /\ IsValidationError(thrown) =>
            /\ handled.status = 400
            /\ e.type = "invalid_request_error"
            /\ e.code = "bad_request"
            /\ e.message = thrown.message
       /\ (~IsValidationError(thrown) /\ "statusCode" \notin DOMAIN thrown
           /\ ClaimedStatus(thrown) = 0) =>
            /\ handled.status = 500
            /\ e.type = "api_error"
            /\ e.code = "server_error"
            /\ e.message = (IF "message" \in DOMAIN thrown
                               /\ thrown.message # ""
                            THEN thrown.message
                            ELSE "Internal server error")

C25_Witness ==
  /\ handled # Pending
  /\ "validation" \in DOMAIN thrown
  /\ Get(thrown, "code", "") = "ERR_CUSTOM"
  /\ handled.status = 400
  /\ handled.body.error.code = "bad_request"

(***************************************************************************)
(* The message converter taken alone: openaiToGemini is given a list of    *)
(* messages and, for the remote image, what fetching it does.              *)
(***************************************************************************)

TextPart(text) == [type |-> "text", text |-> text]
ImageUrlPart(url) == [type |-> "image_url", image_url |-> [url |-> url]]

FunctionToolCall(arguments) ==
  [id |-> "call_1", type |-> "function",
   function |-> [name |-> "get_weather", arguments |-> arguments]]

SystemTurns ==
  { [role |-> "system", content |-> [string |-> "First instruction"]],
    [role |-> "system", content |-> [string |-> "Second instruction"]],
    [role |-> "system",
     content |-> [array |-> << TextPart("a"), ImageUrlPart(DataUrl),
                               TextPart("b") >>]] }

UserTurns ==
  { [role |-> "user", content |-> [string |-> "Hi"]],
    [role |-> "user", content |-> [string |-> ""]],
    [role |-> "user", content |-> [string |-> "   "]],
    [role |-> "user"],
    [role |-> "user",
     content |-> [array |-> << TextPart("look"), ImageUrlPart(RemoteUrl),
                               TextPart("") >>]],
    [role |-> "user", content |-> [array |-> << ImageUrlPart(RemoteUrl) >>]],
    [role |-> "user",
     content |-> [array |-> << ImageUrlPart(DataUrl),
                               ImageUrlPart(PlainDataUrl),
                               [type |-> "input_audio"] >>]] }

AssistantTurns ==
  { [role |-> "assistant", content |-> [string |-> "Sure"]],
    [role |-> "assistant", content |-> [string |-> ""]],
    [role |-> "assistant",
     content |-> [array |-> << ImageUrlPart(RemoteUrl) >>]],
    [role |-> "assistant", content |-> [string |-> "Let me check"],
     tool_calls |-> << FunctionToolCall("{\"x\":\"1\"}") >>],
    [role |-> "assistant",
     tool_calls |-> << FunctionToolCall("{}"),
                       [id |-> "call_2", type |-> "custom"] >>],
    [role |-> "assistant", tool_calls |-> << FunctionToolCall("{x") >>] }

ToolTurns ==
  { [role |-> "tool", tool_call_id |-> "get_weather",
     content |-> [string |-> "{\"temperature\": 20}"]],
    [role |-> "tool", tool_call_id |-> "call_1",
     content |-> [string |-> ""]] }

Turns == SystemTurns \cup UserTurns \cup AssistantTurns \cup ToolTurns

MessageLists == UNION { [1..n -> Turns] : n \in 0..MaxMessages }

ConvertInit ==
  /\ RouteVarsInit
  /\ StreamVarsInit
  /\ ServerVarsInit
  /\ uuidCount = 0
  /\ thrown = EmptyObject
  /\ handled = Pending
  /\ given \in MessageLists
  /\ fetchResult \in [{RemoteUrl} -> FetchOutcomes]
  /\ conversion = Pending

\* openaiToGemini is called with the messages and settles.
Convert ==
  /\ conversion = Pending
  /\ conversion' = openaiToGemini(given, fetchResult)
  /\ UNCHANGED << uuidCount, streamVars, routeVars, thrown, handled, given,
                  fetchResult, serverVars >>

ConvertNext == Convert

ConvertSpec == ConvertInit /\ [][ConvertNext]_vars

(***************************************************************************)
(* Properties of the message converter                                     *)
(***************************************************************************)

\* openaiToGemini has returned (it has not rejected).
Returned == conversion # Pending /\ "threw" \notin DOMAIN conversion

SystemIndexes == { i \in 1..Len(given) : given[i].role = "system" }

LastSystem == CHOOSE i \in SystemIndexes : \A j \in SystemIndexes : j <= i

NonSystem == SelectSeq(given, LAMBDA message : message.role # "system")

\* C26: the systemInstruction openaiToGemini returns is the text of the
\* last system message, undefined when the list has no system message, and
\* the contents are those of the list without its system messages.
C26_LastSystemInstruction ==
  Returned =>
    /\ conversion.systemInstruction =
         IF SystemIndexes = {} THEN undefined
         ELSE [string |->
                 extractTextContent(Get(given[LastSystem], "content",
                                        undefined))]
    /\ conversion.contents = openaiToGemini(NonSystem, fetchResult).contents
    /\ Len(conversion.contents) <= Len(NonSystem)

C26_Witness ==
  /\ Returned
  /\ Len(given) = 3
  /\ given[1] = [role |-> "system",
                 content |-> [string |-> "Second instruction"]]
  /\ given[2] = [role |-> "user", content |-> [string |-> "Hi"]]
  /\ given[3] = [role |-> "system",
                 content |-> [string |-> "First instruction"]]
  /\ conversion.systemInstruction = [string |-> "First instruction"]
  /\ Len(conversion.contents) = 1

\* text.trim() = '' for the texts that occur.
Blank(text) == text \in {"", "   "}

HasFunctionCall(message) ==
  /\ "tool_calls" \in DOMAIN message
  /\ \E i \in 1..Len(message.tool_calls) :
       message.tool_calls[i].type = "function"

\* A user or assistant turn without tool calls whose content is absent,
\* an empty or whitespace-only text, or (assistant) an array without text
\* items.
EmptyTurn(message) ==
  LET content == Get(message, "content", undefined)
  IN /\ message.role \in {"user", "assistant"}
     /\ ~HasFunctionCall(message)
     /\ \/ content = undefined
        \/ "string" \in DOMAIN content /\ Blank(content.string)
        \/ /\ message.role = "assistant"
           /\ "array" \in DOMAIN content
           /\ \A i \in 1..Len(content.array) :
                Get(content.array[i], "type", "") # "text"

NonEmptyTurns == SelectSeq(given, LAMBDA message : ~EmptyTurn(message))

\* C27: openaiToGemini appends no entry for a user or assistant turn that
\* has no tool calls and whose content is empty, whitespace-only or without
\* text: the contents are those of the list without such turns, and no entry
\* has an empty parts list or only an empty text part.
C27_NoEmptyTurn ==
  Returned =>
    /\ conversion.contents =
         openaiToGemini(NonEmptyTurns, fetchResult).contents
    /\ \A i \in 1..Len(conversion.contents) :
         /\ Len(conversion.contents[i].parts) > 0
         /\ conversion.contents[i].parts # << [text |-> ""] >>

\* The contents openaiToGemini gives for the first n messages.
ContentsUpTo(n) == openaiToGemini(SubSeq(given, 1, n), fetchResult).contents

GeminiRole(role) ==
  CASE role = "user" -> "user"
    [] role = "assistant" -> "model"
    [] role = "tool" -> "user"

\* C28: each turn adds at most one entry at the end of the contents built
\* from the turns before it, a system turn none; the entry of a user turn
\* has role user and that of an assistant turn role model; a tool turn
\* always adds the entry {role: user, parts: [{functionResponse: {name:
\* tool_call_id, response: {result: content}}}]}.
C28_OrderAndRoles ==
  Returned =>
    /\ ContentsUpTo(Len(given)) = conversion.contents
    /\ \A i \in 1..Len(given) :
         LET before == ContentsUpTo(i - 1)
             after == ContentsUpTo(i)
         IN /\ Len(after) \in {Len(before), Len(before) + 1}
            /\ SubSeq(after, 1, Len(before)) = before
            /\ SubSeq(conversion.contents, 1, Len(after)) = after
            /\ given[i].role = "system" => after = before
            /\ Len(after) > Len(before) =>
                 after[Len(after)].role = GeminiRole(given[i].role)
            /\ given[i].role = "tool" =>
                 /\ Len(after) = Len(before) + 1
                 /\ after[Len(after)] =
                      [role |-> "user",
                       parts |-> << [functionResponse |->
                                       [name |-> given[i].tool_call_id,
                                        response |->
                                          [result |->
                                             given[i].content.string]]] >>]

C28_Witness ==
  /\ Returned
  /\ Len(given) = 3
  /\ given[1].role = "user"
  /\ given[2].role = "assistant"
  /\ given[3] = [role |-> "tool", tool_call_id |-> "get_weather",
                 content |-> [string |-> "{\"temperature\": 20}"]]
  /\ Len(conversion.contents) = 3
  /\ conversion.contents[2].role = "model"
  /\ conversion.contents[3].parts[1].functionResponse.name = "get_weather"

\* A part that names an image to fetch.
IsRemoteImage(part) ==
  /\ Get(part, "type", "") = "image_url"
  /\ "image_url" \in DOMAIN part
  /\ TruthyStr(part.image_url, "url")
  /\ ~StartsWithData(part.image_url.url)

\* The message without the remote image parts of its content.
WithoutRemoteImages(message) ==
  IF "content" \in DOMAIN message /\ "array" \in DOMAIN message.content
  THEN [message EXCEPT !.content =
          [array |-> SelectSeq(@.array, LAMBDA part : ~IsRemoteImage(part))]]
  ELSE message

GivenWithoutRemoteImages ==
  [i \in 1..Len(given) |-> WithoutRemoteImages(given[i])]

FetchFails ==
  \/ "throws" \in DOMAIN fetchResult[RemoteUrl]
  \/ ~fetchResult[RemoteUrl].ok

\* Some assistant message has a function tool call whose arguments are not
\* JSON.
HasUnparseableArguments(messages) ==
  \E i \in 1..Len(messages) :
    /\ messages[i].role = "assistant"
    /\ "tool_calls" \in DOMAIN messages[i]
    /\ \E j \in 1..Len(messages[i].tool_calls) :
         LET toolCall == messages[i].tool_calls[j]
         IN /\ toolCall.type = "function"
            /\ "SyntaxError" \in DOMAIN JSONparse(toolCall.function.arguments)

\* C29: when fetching the remote image throws or gives a response that is
\* not ok, openaiToGemini does not reject because of it, and it returns
\* what it returns for the same messages without their remote image parts.
C29_FailedFetchSkipsImage ==
  (conversion # Pending /\ FetchFails) =>
    /\ conversion = openaiToGemini(GivenWithoutRemoteImages, fetchResult)
    /\ "threw" \in DOMAIN conversion => HasUnparseableArguments(given)

C29_Witness ==
  /\ Returned
  /\ "throws" \in DOMAIN fetchResult[RemoteUrl]
  /\ Len(given) = 2
  /\ given[1] = [role |-> "user",
                 content |-> [array |-> << TextPart("look"),
                                           ImageUrlPart(RemoteUrl),
                                           TextPart("") >>]]
  /\ given[2] = [role |-> "user",
                 content |-> [array |-> << ImageUrlPart(RemoteUrl) >>]]
  /\ conversion.contents = << [role |-> "user",
                               parts |-> << [text |-> "look"] >>] >>

\* The error JSON.parse throws, as the error handler is given it.
SyntaxErrorThrown == [message |-> "Unexpected token x in JSON"]

\* C30: openaiToGemini rejects a message list in which the arguments of a
\* function tool call are not JSON; a valid request with such messages is
\* never streaming, calls neither setHistory nor sendMessageStream, and once
\* the conversion has settled it is over with the SyntaxError thrown to the
\* error handler, which answers 500.
C30_BadArgumentsRejected ==
  \A r \in Requests :
    LET req == requests[r]
    IN (req.pc # "idle" /\ Validate(req.body) = Pending
        /\ HasUnparseableArguments(req.body.messages)) =>
         /\ "threw" \in DOMAIN openaiToGemini(req.body.messages, fetchResult)
         /\ req.pc \in {"creating", "converting", "responded"}
         /\ req.called \cap {"setHistory", "sendMessageStream"} = {}
         /\ ClientCallsOf(r) = << >>
         /\ req.pc = "responded" =>
              /\ "threw" \in DOMAIN req.reply
              /\ "openaiToGemini" \in req.called =>
                   /\ req.reply = [threw |-> "SyntaxError"]
                   /\ errorHandler(SyntaxErrorThrown).status = 500
                   /\ "error" \in DOMAIN errorHandler(SyntaxErrorThrown).body

C30_Witness ==
  \E r \in Requests :
    /\ requests[r].pc = "responded"
    /\ Validate(requests[r].body) = Pending
    /\ requests[r].body.messages = BadToolCall
    /\ "openaiToGemini" \in requests[r].called
    /\ requests[r].reply = [threw |-> "SyntaxError"]
    /\ ClientCallsOf(r) = << >>

(***************************************************************************)
(* The server: the Fastify instance as createServer assembles it, or as    *)
(* the plugin's tests do (the plugin registered, then a route), the        *)
(* authentication plugin's onRequest hook, and one request.  Header values *)
(* and URLs are strings; split and toLowerCase are tables over the strings *)
(* that occur.                                                             *)
(***************************************************************************)

ApiKey == "test-api-key-12345"

\* The values of the Authorization header (the header may also be absent).
Authorizations ==
  { "", "Basic invalid", "Bearer wrong-key", "Bearer test-api-key-12345",
    "bearer test-api-key-12345", "BEARER test-api-key-12345", "Bearer ",
    "Bearer  test-api-key-12345", "Bearer test-api-key-12345 x",
    "Bearer test-api-key-12346", "Token test-api-key-12345",
    "test-api-key-12345" }

\* authHeader.split(' ')
SplitSpaces(authHeader) ==
  CASE authHeader = "" -> << "" >>
    [] authHeader = "Basic invalid" -> << "Basic", "invalid" >>
    [] authHeader = "Bearer wrong-key" -> << "Bearer", "wrong-key" >>
    [] authHeader = "Bearer test-api-key-12345" ->
         << "Bearer", "test-api-key-12345" >>
    [] authHeader = "bearer test-api-key-12345" ->
         << "bearer", "test-api-key-12345" >>
    [] authHeader = "BEARER test-api-key-12345" ->
         << "BEARER", "test-api-key-12345" >>
    [] authHeader = "Bearer " -> << "Bearer", "" >>
    [] authHeader = "Bearer  test-api-key-12345" ->
         << "Bearer", "", "test-api-key-12345" >>
    [] authHeader = "Bearer test-api-key-12345 x" ->
         << "Bearer", "test-api-key-12345", "x" >>
    [] authHeader = "Bearer test-api-key-12346" ->
         << "Bearer", "test-api-key-12346" >>
    [] authHeader = "Token test-api-key-12345" ->
         << "Token", "test-api-key-12345" >>
    [] authHeader = "test-api-key-12345" -> << "test-api-key-12345" >>

\* parts[0]?.toLowerCase()
toLowerCase(word) ==
  CASE word \in {"Bearer", "bearer", "BEARER"} -> "bearer"
    [] word = "Basic" -> "basic"
    [] word = "Token" -> "token"
    [] OTHER -> word

\* The URLs requested.
Urls ==
  { "/", "/health", "/docs", "/docs/", "/docs/json",
    "/docs/static/index.html", "/health?verbose=1", "/docs?x=1",
    "/v1/chat/completions", "/v1/models", "/test", "/docsx", "/healthz",
    "/v1/models?next=/docs/" }

\* request.url.split('?')[0]
PathOf(url) ==
  CASE url = "/health?verbose=1" -> "/health"
    [] url = "/docs?x=1" -> "/docs"
    [] url = "/v1/models?next=/docs/" -> "/v1/models"
    [] OTHER -> url

PUBLIC_ROUTES == {"/docs", "/docs/", "/health", "/"}

\* path.startsWith('/docs/')
StartsWithDocs(path) ==
  path \in {"/docs/", "/docs/json", "/docs/static/index.html"}

\* The requests: a URL, with or without an Authorization header.
Incomings ==
  { [url |-> u] : u \in Urls }
    \cup { [url |-> u, authorization |-> a] : u \in Urls,
                                               a \in Authorizations }

safeCompare(a, b) ==
  IF Len(a) # Len(b) THEN FALSE ELSE a = b

\* extractBearerToken(request.headers.authorization); null is "null", and
\* no header value here has the token 'null'.
extractBearerToken(request) ==
  IF ~TruthyStr(request, "authorization") THEN null
  ELSE LET parts == SplitSpaces(request.authorization)
       IN IF Len(parts) # 2 \/ toLowerCase(parts[1]) # "bearer"
          THEN null
          ELSE parts[2]

AuthenticationError(message, code) ==
  [status |-> 401,
   body |-> [error |-> [message |-> message,
                        type |-> "authentication_error",
                        code |-> code]]]

\* The onRequest hook the plugin adds: what it sends, Pending when it
\* returns without sending.
authHook(request, apiKey) ==
  LET path == PathOf(request.url)
      token == extractBearerToken(request)
  IN IF path \in PUBLIC_ROUTES \/ StartsWithDocs(path) THEN Pending
     ELSE IF token = null \/ token = ""
          THEN AuthenticationError(
                 "Missing Authorization header. Expected: Bearer <api_key>",
                 "missing_api_key")
          ELSE IF ~safeCompare(token, apiKey)
               THEN AuthenticationError("Invalid API key", "invalid_api_key")
               ELSE Pending

\* The plugins each assembly registers: createServer, and the instance of
\* the plugin's tests.
Registered(assembly) ==
  IF assembly = "createServer"
  THEN {"loggerPlugin", "fastifyCors", "fastifySwagger", "fastifySwaggerUi",
        "fastifySSE", "chatCompletionsRoute", "modelsRoute"}
  ELSE {"authPlugin"}

\* authPluginHandler: the hook is added when PROXY_API_KEY is not falsy.
HooksAdded(assembly, environment) ==
  IF "authPlugin" \in Registered(assembly)
     /\ "PROXY_API_KEY" \in DOMAIN environment
     /\ environment.PROXY_API_KEY # [string |-> ""]
  THEN {"auth"}
  ELSE {}

KeyEnvironments ==
  { EmptyObject, [PROXY_API_KEY |-> [string |-> ""]],
    [PROXY_API_KEY |-> [string |-> ApiKey]] }

ServerInit ==
  /\ RouteVarsInit
  /\ StreamVarsInit
  /\ LibVarsInit
  /\ uuidCount = 0
  /\ env \in KeyEnvironments
  /\ cliOptions = [includeThinking |-> FALSE]
  /\ app \in {"createServer", "authTest"}
  /\ hooks = {}
  /\ serverPc = "starting"
  /\ incoming \in Incomings
  /\ hookReply = Pending

\* The instance is assembled and made ready: its plugins are registered.
Register ==
  /\ serverPc = "starting"
  /\ hooks' = HooksAdded(app, env)
  /\ serverPc' = "ready"
  /\ UNCHANGED << uuidCount, streamVars, routeVars, thrown, handled, given,
                  fetchResult, conversion, env, cliOptions, app, incoming,
                  hookReply >>

\* The request arrives and the onRequest hook runs; when it has sent a reply
\* the framework goes no further.
OnRequest ==
  /\ serverPc = "ready"
  /\ "auth" \in hooks
  /\ hookReply' = authHook(incoming, env.PROXY_API_KEY.string)
  /\ serverPc' = IF hookReply' = Pending THEN "hooked" ELSE "replied"
  /\ UNCHANGED << uuidCount, streamVars, routeVars, thrown, handled, given,
                  fetchResult, conversion, env, cliOptions, app, hooks,
                  incoming >>

\* The request is routed and its handler runs: there was no hook, or the
\* hook sent nothing.
RunHandler ==
  /\ \/ serverPc = "ready" /\ hooks = {}
     \/ serverPc = "hooked"
  /\ serverPc' = "handler"
  /\ UNCHANGED << uuidCount, streamVars, routeVars, thrown, handled, given,
                  fetchResult, conversion, env, cliOptions, app, hooks,
                  incoming, hookReply >>

ServerNext ==
  \/ Register
  \/ OnRequest
  \/ RunHandler

ServerSpec == ServerInit /\ [][ServerNext]_vars

(***************************************************************************)
(* Properties of the server                                                *)
(***************************************************************************)

\* PROXY_API_KEY is set (to a key that is not empty).
KeySet ==
  /\ "PROXY_API_KEY" \in DOMAIN env
  /\ env.PROXY_API_KEY # [string |-> ""]

\* The public routes: '/', '/health', '/docs' and the paths under '/docs/',
\* whatever the query string.
PublicUrls ==
  { "/", "/health", "/docs", "/docs/", "/docs/json",
    "/docs/static/index.html", "/health?verbose=1", "/docs?x=1" }

\* 'Bearer <token>', the scheme in any case.
BearerHeaders(token) ==
  { "Bearer " \o token, "bearer " \o token, "BEARER " \o token }

WrongTokens == {"wrong-key", "test-api-key-12346"}

\* The request has been answered by the hook or has reached its handler.
Settled == serverPc \in {"replied", "handler"}

\* C31: with PROXY_API_KEY set, a request to a route that is not public
\* reaches its handler only with the header 'Bearer <key>'; without such a
\* header it is answered 401, invalid_api_key when the header is
\* 'Bearer <token>' with another token and missing_api_key otherwise.
\* With PROXY_API_KEY unset every request reaches its handler.
C31_AuthRequired ==
  Settled =>
    IF KeySet /\ incoming.url \notin PublicUrls
    THEN LET authorization == Get(incoming, "authorization", "")
         IN IF authorization \in BearerHeaders(env.PROXY_API_KEY.string)
            THEN serverPc = "handler"
            ELSE /\ serverPc = "replied"
                 /\ hookReply.status = 401
                 /\ hookReply.body.error.code =
                      IF \E token \in WrongTokens :
                           authorization \in BearerHeaders(token)
                      THEN "invalid_api_key"
                      ELSE "missing_api_key"
    ELSE serverPc = "handler"

\* C32: when INCLUDE_THINKING is unset and --include-thinking is not given,
\* no chunk emitted carries reasoning_content, and neither does the message
\* of the aggregate response.
C32_ThinkingOffByDefault ==
  (~cliOptions.includeThinking /\ "INCLUDE_THINKING" \notin DOMAIN env) =>
    /\ \A i \in 1..Len(emitted) :
         IsJson(emitted[i]) =>
           "reasoning_content" \notin DOMAIN DeltaOf(DataOf(emitted[i]))
    /\ Responded200 =>
         "reasoning_content" \notin DOMAIN MessageOf(reply.body)

\* The positions of the emitted chunks whose delta carries content.
ContentChunks ==
  { i \in 1..Len(EmittedData) : "content" \in DOMAIN DeltaOf(EmittedData[i]) }

\* C33: the first emitted chunk whose delta carries content carries role
\* 'assistant' too, and no chunk after it carries a role, whatever events
\* come before the first content event.
C33_RoleOnFirstContentChunk ==
  ContentChunks # {} =>
    LET first == CHOOSE i \in ContentChunks : \A j \in ContentChunks : i <= j
    IN /\ "role" \in DOMAIN DeltaOf(EmittedData[first])
       /\ DeltaOf(EmittedData[first]).role = "assistant"
       /\ \A j \in (first + 1)..Len(EmittedData) :
            "role" \notin DOMAIN DeltaOf(EmittedData[j])

\* The positions of the frames written that hold a JSON chunk.
JsonFrames == { i \in 1..Len(frames) : "json" \in DOMAIN frames[i] }

\* C34: all the JSON chunk frames written within one streaming response
\* carry the same id and the same created, the error chunk written after a
\* failure of the engine stream included.
C34_FramesSameIdAndCreated ==
  body.stream =>
    \A i, j \in JsonFrames :
      /\ frames[i].json.id = frames[j].json.id
      /\ frames[i].json.created = frames[j].json.created

(***************************************************************************)
(* Termination of the requests.  getOrCreate and openaiToGemini settle,    *)
(* the handler runs whenever the promise it waits for has settled, and the *)
(* engine stream of a request is taken to complete or to throw in the end. *)
(* Nothing makes a request arrive or a client close.                       *)
(***************************************************************************)

LiveRouteSpec ==
  /\ RouteSpec
  /\ \A r \in Requests :
       /\ WF_vars(SessionCreated(r) \/ SessionFailed(r))
       /\ WF_vars(Converted(r))
       /\ WF_vars(StreamEnd(r) \/ StreamThrow(r))

\* Request r is over: a streaming response has had its '[DONE]' frame,
\* once, and is ended; any other request has sent one response, a
\* completion or a 400, or has thrown an error to the error handler, and
\* has written nothing to the raw response.
Finished(r) ==
  LET req == requests[r]
  IN /\ req.pc = "responded"
     /\ req.reply # Pending
     /\ IF "sse" \in DOMAIN req.reply
        THEN /\ req.sentinels = 1
             /\ req.writes >= 2
             /\ req.ended
        ELSE /\ \/ DOMAIN req.reply = {"threw"}
                \/ "status" \in DOMAIN req.reply
                   /\ req.reply.status \in {200, 400}
             /\ req.writes = 0
             /\ req.sentinels = 0
             /\ ~req.ended

\* C35: every request that has arrived is over in the end and stays so,
\* and the response a request has sent is never replaced by another.
C35_EveryRequestFinishes ==
  /\ \A r \in Requests : (requests[r].pc # "idle") ~> []Finished(r)
  /\ [][\A r \in Requests :
          requests[r].reply # Pending =>
            requests'[r].reply = requests[r].reply]_vars

C35_Witness ==
  /\ Finished(1)
  /\ "sse" \in DOMAIN requests[1].reply
  /\ requests[1].closed
  /\ Finished(2)
  /\ requests[2].reply = [threw |-> EngineError]

\* A body with which the request ends before the engine is invoked: it is
\* rejected by the validation, the conversion of its messages throws, or it
\* yields no contents.
EndsBeforeInvocation(b) ==
  \/ NoMessages(b)
  \/ "model" \notin DOMAIN b
  \/ LET converted == openaiToGemini(b.messages, fetchResult)
     IN \/ "threw" \in DOMAIN converted
        \/ Len(converted.contents) = 0

\* Request r has the engine not invoked in the state after the step: its
\* body ends it before, or it has not called sendMessageStream.
NotInvokedNext(r) ==
  /\ requests'[r].pc # "idle"
  /\ \/ EndsBeforeInvocation(requests'[r].body)
     \/ "sendMessageStream" \notin requests'[r].called

\* C36: a request that ends before the engine is invoked calls neither
\* setHistory nor sendMessageStream, and none of its steps makes a call on a
\* session's client or changes the history of a session.
C36_NoInvocationNoHistory ==
  [][\A r \in Requests :
       NotInvokedNext(r) =>
         /\ requests'[r].called \cap {"setHistory", "sendMessageStream"} = {}
         /\ \A i \in 1..Len(clientCalls') : clientCalls'[i].request # r
         /\ requests'[r] # requests[r] =>
              /\ clientCalls' = clientCalls
              /\ \A s \in DOMAIN sessions :
                   sessions'[s].history = sessions[s].history
    ]_vars

\* The second request was answered 'No user message found' after the first
\* had written the shared session's history, which is still there.
C36_Witness ==
  /\ requests[1].pc = "responded"
  /\ "sendMessageStream" \in requests[1].called
  /\ requests[2].pc = "responded"
  /\ requests[2].called = {"openaiToGemini"}
  /\ requests[2].body.messages = SystemOnly
  /\ requests[2].reply.status = 400
  /\ sharedSession # null
  /\ Len(sessions[sharedSession].history) = 2

\* The positions of the contents of request r that have role user.
UserContents(r) ==
  { k \in 1..Len(ContentsOf(r)) : ContentsOf(r)[k].role = "user" }

\* C37: every sendMessageStream call is given the parts of the last content
\* with role user of its request, and that content is the last of the
\* request's contents.
C37_SubmitsLastUserContent ==
  \A i \in 1..Len(clientCalls) :
    clientCalls[i].op = "sendMessageStream" =>
      LET r == clientCalls[i].request
          contents == ContentsOf(r)
      IN /\ UserContents(r) # {}
         /\ contents[Len(contents)].role = "user"
         /\ clientCalls[i].arg =
              contents[CHOOSE k \in UserContents(r) :
                         \A j \in UserContents(r) : j <= k].parts

\* C38: the session on whose client a request calls sendMessageStream has
\* the model named in that request's body.
C38_SessionOfRequestedModel ==
  \A r \in Requests :
    "sendMessageStream" \in requests[r].called =>
      sessions[requests[r].session].model = requests[r].body.model

\* C39: a request whose client has closed the connection and that has
\* called sendMessageStream has an aborted signal, whether the close came
\* before or after the call.
C39_ClosedInvocationAborted ==
  \A r \in Requests :
    (requests[r].closed /\ "sendMessageStream" \in requests[r].called) =>
      requests[r].aborted

\* C40: a step in which the client of one request closes its connection
\* leaves every other request as it was (its signal, its chunk id, its
\* first-chunk flag, what it has yielded and written), and a signal is
\* aborted only when the client of its own request has closed.
C40_CancellationPerRequest ==
  [][\A r \in Requests :
       (~requests[r].closed /\ requests'[r].closed) =>
         /\ \A q \in Requests \ {r} : requests'[q] = requests[q]
         /\ \A q \in Requests : requests'[q].aborted => requests'[q].closed
    ]_vars

\* Two requests in flight on the same session, each with its own chunk id;
\* the client of the first has closed and its signal is aborted, the second
\* has yielded a chunk since and its signal is not aborted.
C40_Witness ==
  /\ requests[1].pc = "streaming"
  /\ requests[2].pc = "streaming"
  /\ requests[1].session = requests[2].session
  /\ requests[1].id # requests[2].id
  /\ requests[1].closed
  /\ requests[1].aborted
  /\ ~requests[2].closed
  /\ ~requests[2].aborted
  /\ requests[2].yields = 1
  /\ ~requests[2].isFirstChunk

====
